---- MODULE Spec2Model ----
(***************************************************************************)
(* Project_History: response cache (utils/api_cache.py), malformed-response *)
(* retry and fallback engine (utils/ai_client.py), progress tracker        *)
(* (progress_tracker.py) and the six-phase driver (analyze_project.py).    *)
(*                                                                         *)
(* Three specifications share the variables below:                         *)
(*   CacheSpec   sequences of APICache operations on one cache file        *)
(*   Spec        calls of query_json / query_text_with_retry               *)
(*   DriverSpec  runs of cmd_analyze, killed and resumed                   *)
(***************************************************************************)
EXTENDS Integers, Sequences, FiniteSets, TLC

(***************************************************************************)
(* Bounds of the model.                                                    *)
(***************************************************************************)
\* number of distinct values random.randint(100000, 999999) is drawn from
NumRequestIds == 2
\* longest retry.fallback_models list
MaxFallbacks == 2
\* largest retry.max_retries_per_model / max_retries argument
MaxRetries == 2
\* calls of the retry engine one process makes
MaxCalls == 2
\* runs of cmd_analyze on one output directory
MaxRuns == 2
\* largest number of analysis units in a plan
MaxUnits == 3
MaxTransitions == 4
MaxMagnitude == 3
MaxMeasured == 5
NumPaths == 3
NumHashes == 2
MaxFiles == 4
\* largest number of snapshots of the project in a drill-down
MaxDrillSnapshots == 3
\* tool calls answered by one SnapshotContext
MaxContextCalls == 4
\* largest max_turns argument below the default, tool calls of one model
\* turn, and tool-call ids
MaxTurns == 3
MaxToolCalls == 2
NumCallIds == 2
\* number of different snapshot sets (fingerprints) the zip directory can hold
NumSnapshotSets == 2

(***************************************************************************)
(* Responses.  "" is the empty response, " " a whitespace-only response,   *)
(* "g1" is a well-formed answer, "w1" is the answer g1 with text around it *)
(* (prose around the JSON, or surrounding whitespace), "bad" is non-empty  *)
(* text holding no JSON.                                                   *)
(***************************************************************************)
NoEntry == "<none>"
RawResponses == {"", " ", "g1", "w1", "bad"}

\* model names: 0 is the client's primary model, 1..MaxFallbacks the fallbacks
PrimaryModel == 0
Models == 0..MaxFallbacks

\* query prompts: <<"q", 0, 0>> is the original prompt of a retry-engine call,
\* <<"q", n, 0>> the same prompt behind the request id n; the driver's prompts
\* are defined with the driver.
OriginalPrompt == <<"q", 0, 0>>
BustedPrompt(rid) == <<"q", rid, 0>>

VARIABLES
    \* ---- APICache (utils/api_cache.py)
    cache,          \* self.cache: key -> response
    old_cache,      \* self.old_cache
    cacheFile,      \* the main cache file on disk
    backupMade,     \* a <file>.corrupted.<ts>.bak copy exists
    proc,           \* "start" | "ready" | "crashed"
    last_op,        \* the last cache operation and what it observed
    first_stored    \* key -> first response stored since the key was last absent

cacheVars == <<cache, old_cache, cacheFile, backupMade, proc, last_op, first_stored>>

VARIABLES
    \* ---- query_json / query_text_with_retry (utils/ai_client.py)
    qpc,                    \* "idle" | "primary" | "fallback" | "exhausted" | "returned" | "raised"
    fn,                     \* "json" (query_json) | "text" (query_text_with_retry)
    fallback_models,        \* the configured list
    effective_max_retries,
    primary_max_attempts,
    attempt,                \* loop variable of the running retry loop
    fb,                     \* position in fallback_models
    failed_attempts,        \* the 'prompt' fields of failed_attempts
    returned,               \* the value the call returned
    accepted,               \* the response of the accepted attempt
    accepted_by,            \* <<model, attempt>> of the accepted attempt
    a0_malformed,           \* the primary's attempt 0 was judged malformed
    dirty,                  \* <<key, response>> entries inserted by failed attempts of this call
    calls_made,             \* calls of the engine started by this process
    call_log                \* the attempts of this call, in order, with their outcome

callVars == <<qpc, fn, fallback_models, effective_max_retries, primary_max_attempts,
              attempt, fb, failed_attempts, returned, accepted, accepted_by,
              a0_malformed, dirty, calls_made, call_log>>

VARIABLES
    \* ---- one run of cmd_analyze
    dpc,                \* position of the run
    plan_only,          \* args.plan_only
    curHash,            \* the snapshot set in the zip directory (its fingerprint)
    units,              \* tiers of the units plan_analysis_units yields (the snapshot
                        \* sets considered differ in content, not in the plan's shape)
    tracker,            \* ProgressTracker._data
    progFile,           \* the progress file on disk
    project_summary,
    i,                  \* loop index of phase 5 (0-based)
    all_results,        \* narratives of all_results
    unit_result,             \* narrative of the unit just analysed
    ai_client,          \* an AI client was created
    run_log,            \* the run wrote a log file
    \* ---- history
    provider_used,      \* kinds of provider invocations of this run
    analysis_calls,     \* units analyze_unit was called for in this run
    progFile0,          \* the progress file when the run started
    cacheFile0,         \* the cache file when the run started
    save_cut,           \* the save a kill interrupted
    killed_at,          \* "inflight" (a unit was being analysed) | "save" | "other"
    resume_k,           \* unit in flight when the previous run was killed, else -1
    rerun,              \* the previous run completed on the same inputs
    runs,               \* runs started
    produced_for        \* unit index -> the unit (its tier) the result stored in the
                        \* progress file under that index was produced for

startVars == <<plan_only, curHash, units, progFile0, cacheFile0, resume_k, rerun, runs>>
runVars == <<startVars, produced_for>>
driverVars == <<dpc, tracker, progFile, project_summary, i, all_results, unit_result,
                ai_client, run_log, provider_used, analysis_calls, save_cut, killed_at,
                runVars>>

VARIABLES
    \* ---- one single-shot request of the pipeline (_query_llm, llm_analysis.py)
    rpc,                \* "idle" | "outer" | "inner" | "done" | "raised"
    outer_attempt,      \* attempt of make_api_call_with_retry in _query_llm
    inner_attempt,      \* attempt of make_api_call_with_retry in create_message
    invocations,        \* provider invocations of this request
    waits,              \* the exponential_delay of every sleep, in order
    last_error          \* category of the last error the provider raised

requestVars == <<rpc, outer_attempt, inner_attempt, invocations, waits, last_error>>

VARIABLES
    \* ---- one call of plan_analysis_units (change_analyzer.py)
    ppc,                \* "input" | "planned"
    magnitudes,         \* the magnitude list, one value per transition
    breakpoints,        \* [minor_threshold, major_threshold]
    analysis_units      \* the list plan_analysis_units returned

planVars == <<ppc, magnitudes, breakpoints, analysis_units>>

VARIABLES
    \* ---- one call of diff_snapshots (snapshot_diff.py)
    spc,                \* "input" | "diffed" | "rediffed"
    undiffable_paths,   \* the common files for which _compute_diff returns None
    first_diff,         \* the SnapshotDiff of the first of two runs
    old_files,          \* _walk_files of the old snapshot: path -> content hash, 0 = no file
    new_files,          \* _walk_files of the new snapshot
    snapshot_diff       \* the SnapshotDiff returned

diffVars == <<spc, old_files, new_files, snapshot_diff, undiffable_paths, first_diff>>

VARIABLES
    \* ---- one call of discover_snapshots (snapshot_discovery.py)
    zpc,                \* "input" | "returned" | "raised"
    directory,          \* the entries of zip_directory
    snapshots,          \* the list returned
    zip_error           \* the ValueError raised: [kind, files]

discoveryVars == <<zpc, directory, snapshots, zip_error>>

\* run_tool_conversation: messages holds what the latest turn appended to
\* the conversation; the text collected for the caller is left out
VARIABLES
    tpc, platform, max_turns, turn, model_response, messages

toolVars ==
    <<tpc, platform, max_turns, turn, model_response, messages>>

\* cmd_drill_down: the two labels given, the discovered snapshots, the summary
\* stored in the progress file and the major analyses started
VARIABLES
    kpc, drill_down, drill_snapshots, stored_summary, snap_a, snap_b, major_analyses

drillVars ==
    <<kpc, drill_down, drill_snapshots, stored_summary, snap_a, snap_b, major_analyses>>

\* one SnapshotContext: its two lazily loaded contents, the successful
\* extractions of each archive so far, the sides get_file_content was asked
\* for, and the latest tool call
VARIABLES
    _old_contents, _new_contents, extractions, sides_asked, context_calls, last_tool

contextVars ==
    <<_old_contents, _new_contents, extractions, sides_asked, context_calls, last_tool>>

\* two requests of QueryWithBaseClient and the canonical request string
\* _generate_cache_key has built of each
VARIABLES
    key_requests, request_strings

keyVars == <<key_requests, request_strings>>

\* the variables of the parts that the cache, the retry engine and the driver
\* never touch
auxVars == <<requestVars, planVars, diffVars, discoveryVars, toolVars, drillVars, contextVars, keyVars>>

\* what the actions of one part leave alone
exceptRequestVars == <<cacheVars, callVars, driverVars, planVars, diffVars, discoveryVars, toolVars, drillVars, contextVars, keyVars>>
exceptPlanVars == <<cacheVars, callVars, driverVars, requestVars, diffVars, discoveryVars, toolVars, drillVars, contextVars, keyVars>>
exceptDiffVars == <<cacheVars, callVars, driverVars, requestVars, planVars, discoveryVars, toolVars, drillVars, contextVars, keyVars>>
exceptDiscoveryVars == <<cacheVars, callVars, driverVars, requestVars, planVars, diffVars, toolVars, drillVars, contextVars, keyVars>>
exceptToolVars == <<cacheVars, callVars, driverVars, requestVars, planVars, diffVars, discoveryVars, drillVars, contextVars, keyVars>>
exceptDrillVars == <<cacheVars, callVars, driverVars, requestVars, planVars, diffVars, discoveryVars, toolVars, contextVars, keyVars>>
exceptContextVars == <<cacheVars, callVars, driverVars, requestVars, planVars, diffVars, discoveryVars, toolVars, drillVars, keyVars>>
exceptKeyVars == <<cacheVars, callVars, driverVars, requestVars, planVars, diffVars, discoveryVars, toolVars, drillVars, contextVars>>

(***************************************************************************)
(* APICache                                                                *)
(***************************************************************************)
\* the SHA-256 of the canonical request string, for one fixed stable prompt
\* and max-tokens value
_generate_cache_key(query_prompt, model_name) == <<query_prompt, model_name>>

\* a cache map is a function from the keys present to their responses
EmptyMap == <<>>
Has(m, k) == k \in DOMAIN m
Lookup(m, k) == IF k \in DOMAIN m THEN m[k] ELSE NoEntry
Put(m, k, r) == [x \in DOMAIN m \cup {k} |-> IF x = k THEN r ELSE m[x]]
Del(m, k) == [x \in DOMAIN m \ {k} |-> m[x]]

\* outcomes of one save_cache: the rename succeeded; the write failed and the
\* file is as before; (os.name == 'nt') the target was removed and the move
\* then failed
SaveOutcomes == {"ok", "failed", "lost"}

\* a cache state is [cache, file, nsaves]
save_cache(st, o) ==
    [st EXCEPT !.nsaves = @ + 1,
               !.file = CASE o = "ok" -> [kind |-> "ok", map |-> st.cache]
                          [] o = "lost" /\ st.file.kind # "missing" ->
                                [kind |-> "missing", map |-> EmptyMap]
                          [] OTHER -> @]

get_cached_response_unpromoted(st, old, k, o) ==
    IF Has(st.cache, k)
    THEN [st |-> st, response |-> st.cache[k]]
    ELSE [st |-> st, response |-> Lookup(old, k)]

get_cached_response(st, old, k, o) ==
    IF Has(st.cache, k)
    THEN [st |-> st, response |-> st.cache[k]]
    ELSE IF Has(old, k)
         THEN [st |-> save_cache([st EXCEPT !.cache = Put(@, k, old[k])], o),
               response |-> old[k]]
         ELSE [st |-> st, response |-> NoEntry]

set_cached_response_overwriting(st, k, response, o) ==
    save_cache([st EXCEPT !.cache = Put(@, k, response)], o)

set_cached_response(st, k, response, o) ==
    IF ~Has(st.cache, k)
    THEN save_cache([st EXCEPT !.cache = Put(@, k, response)], o)
    ELSE st

remove_cache_entry_skipped(st, k, o) == st

remove_cache_entry(st, k, o) ==
    IF Has(st.cache, k)
    THEN save_cache([st EXCEPT !.cache = Del(@, k)], o)
    ELSE st

clear_cache(st, o) == save_cache([st EXCEPT !.cache = EmptyMap], o)

\* _load_cache_file: [raised, map, backup]
_load_cache_file_tolerant(file, is_main) ==
    [raised |-> FALSE,
     map |-> IF file.kind = "ok" THEN file.map ELSE EmptyMap,
     backup |-> FALSE]

_load_cache_file(file, is_main) ==
    IF file.kind = "ok" THEN [raised |-> FALSE, map |-> file.map, backup |-> FALSE]
    ELSE IF file.kind = "missing"
         THEN [raised |-> FALSE, map |-> EmptyMap, backup |-> FALSE]
         ELSE IF is_main
              THEN [raised |-> TRUE, map |-> EmptyMap, backup |-> TRUE]
              ELSE [raised |-> FALSE, map |-> EmptyMap, backup |-> FALSE]

St == [cache |-> cache, file |-> cacheFile, nsaves |-> 0]

NoOp == [op |-> "none", key |-> <<OriginalPrompt, PrimaryModel>>, response |-> NoEntry,
         before |-> NoEntry, nsaves |-> 0, outcome |-> "none"]

\* the outcome of the save an operation made, "none" when it made none
OutcomeOf(st, o) == IF st.nsaves > 0 THEN o ELSE "none"

\* contents an earlier run can have left in a cache file
FileMaps ==
    {EmptyMap}
    \cup {Put(EmptyMap, <<OriginalPrompt, PrimaryModel>>, r) : r \in {"g1", "bad"}}
Files ==
    {[kind |-> "missing", map |-> EmptyMap], [kind |-> "corrupt", map |-> EmptyMap]}
    \cup {[kind |-> "ok", map |-> m] : m \in FileMaps}

CacheInit ==
    /\ cache = EmptyMap
    /\ old_cache \in FileMaps
    /\ cacheFile \in Files
    /\ backupMade = FALSE
    /\ proc = "start"
    /\ last_op = NoOp
    /\ first_stored = EmptyMap

\* set_cache_file(cache_file): APICache.__init__ -> load_cache
SetCacheFile ==
    /\ proc = "start"
    /\ LET r == _load_cache_file(cacheFile, TRUE)
       IN /\ proc' = IF r.raised THEN "crashed" ELSE "ready"
          /\ cache' = r.map
          /\ first_stored' = r.map
          \* shutil.copy2 of the corrupt file may itself fail
          /\ backupMade' \in (IF r.backup THEN BOOLEAN ELSE {FALSE})
    /\ UNCHANGED <<old_cache, cacheFile, last_op>>

Get(k, o) ==
    /\ proc = "ready"
    /\ LET g == get_cached_response(St, old_cache, k, o)
       IN /\ cache' = g.st.cache
          /\ cacheFile' = g.st.file
          /\ last_op' = [op |-> "get", key |-> k, response |-> g.response,
                         before |-> Lookup(cache, k), nsaves |-> g.st.nsaves,
                         outcome |-> OutcomeOf(g.st, o)]
          /\ first_stored' = IF ~Has(first_stored, k) /\ g.response # NoEntry
                             THEN Put(first_stored, k, g.response)
                             ELSE first_stored
    /\ UNCHANGED <<old_cache, backupMade, proc>>
    /\ UNCHANGED <<callVars, driverVars, auxVars>>

Set(k, r, o) ==
    /\ proc = "ready"
    /\ LET s == set_cached_response(St, k, r, o)
       IN /\ cache' = s.cache
          /\ cacheFile' = s.file
          /\ last_op' = [op |-> "set", key |-> k, response |-> r,
                         before |-> Lookup(cache, k), nsaves |-> s.nsaves,
                         outcome |-> OutcomeOf(s, o)]
          /\ first_stored' = IF ~Has(first_stored, k)
                             THEN Put(first_stored, k, r)
                             ELSE first_stored
    /\ UNCHANGED <<old_cache, backupMade, proc>>
    /\ UNCHANGED <<callVars, driverVars, auxVars>>

Remove(k, o) ==
    /\ proc = "ready"
    /\ LET s == remove_cache_entry(St, k, o)
       IN /\ cache' = s.cache
          /\ cacheFile' = s.file
          /\ last_op' = [op |-> "remove", key |-> k, response |-> NoEntry,
                         before |-> Lookup(cache, k), nsaves |-> s.nsaves,
                         outcome |-> OutcomeOf(s, o)]
          /\ first_stored' = Del(first_stored, k)
    /\ UNCHANGED <<old_cache, backupMade, proc>>
    /\ UNCHANGED <<callVars, driverVars, auxVars>>

Clear(o) ==
    /\ proc = "ready"
    /\ LET s == clear_cache(St, o)
       IN /\ cache' = s.cache
          /\ cacheFile' = s.file
          /\ last_op' = [NoOp EXCEPT !.op = "clear", !.nsaves = s.nsaves, !.outcome = o]
          /\ first_stored' = EmptyMap
    /\ UNCHANGED <<old_cache, backupMade, proc>>
    /\ UNCHANGED <<callVars, driverVars, auxVars>>

\* the keys and responses the cache operations are exercised with
OpKeys == {<<OriginalPrompt, PrimaryModel>>, <<BustedPrompt(1), PrimaryModel>>}
OpResponses == {"g1", "w1", "bad"}

CacheNext ==
    \/ SetCacheFile /\ UNCHANGED <<callVars, driverVars, auxVars>>
    \/ \E k \in OpKeys, o \in SaveOutcomes : Get(k, o)
    \/ \E k \in OpKeys, r \in OpResponses, o \in SaveOutcomes : Set(k, r, o)
    \/ \E k \in OpKeys, o \in SaveOutcomes : Remove(k, o)
    \/ \E o \in SaveOutcomes : Clear(o)

(***************************************************************************)
(* QueryWithBaseClient and the retry / fallback engine                     *)
(***************************************************************************)
\* what the provider call of one attempt yields: a response text, or "exc"
\* when create_message raises (ModelError or any other exception)
ProviderOutcomes == RawResponses \cup {"exc"}

\* result and str(result).strip()
NonBlank(r) == r \notin {"", " "}

\* str(result).strip()
Strip(r) == CASE r = " " -> "" [] r = "w1" -> "g1" [] OTHER -> r

\* extract_json_from_response: the JSON found in the text, '' when none
extract_json_from_response(r) ==
    CASE r \in {"", " ", "bad"} -> ""
      [] r = "w1" -> "g1"
      [] OTHER -> r

\* json.loads succeeds and the expected keys are present
JsonValid(r) == r = "g1"

\* [st, raised, result, provider]
QueryWithBaseClient(st, old, model_name, query_prompt, out, json_output, o) ==
    LET k == _generate_cache_key(query_prompt, model_name)
        g == get_cached_response(st, old, k, o)
    IN IF g.response # NoEntry
       THEN [st |-> g.st, raised |-> FALSE, provider |-> FALSE,
             result |-> IF json_output THEN extract_json_from_response(g.response)
                        ELSE g.response]
       ELSE IF out = "exc"
            THEN [st |-> g.st, raised |-> TRUE, provider |-> TRUE, result |-> ""]
            ELSE [st |-> IF NonBlank(out) THEN set_cached_response(g.st, k, out, o)
                         ELSE g.st,
                  raised |-> FALSE, provider |-> TRUE,
                  result |-> IF json_output THEN extract_json_from_response(out)
                             ELSE out]

\* the attempt's result is rejected
IsProblematic(f, result) ==
    IF f = "json" THEN result = "" \/ ~JsonValid(result) ELSE ~NonBlank(result)

\* for failed in failed_attempts: remove_cached_response(full_cache, failed['prompt'], model_name)
RECURSIVE RemoveFailed(_, _, _, _)
RemoveFailed(st, failed, model_name, o) ==
    IF failed = <<>> THEN st
    ELSE RemoveFailed(remove_cache_entry(st, _generate_cache_key(Head(failed), model_name), o),
                      Tail(failed), model_name, o)

\* the success branch of the primary loop (ai_client.py 519-563, 893-936)
PrimarySuccessCleanup(st, att, current_prompt, result, failed, o) ==
    LET k0 == _generate_cache_key(OriginalPrompt, PrimaryModel)
        s1 == IF att > 0
              THEN remove_cache_entry(
                       remove_cache_entry(st, k0, o),
                       _generate_cache_key(current_prompt, PrimaryModel), o)
              ELSE st
        s2 == set_cached_response(s1, k0, result, o)
    IN IF failed # <<>> THEN RemoveFailed(s2, failed, PrimaryModel, o) ELSE s2

\* the success branch of a fallback loop (ai_client.py 689-711, 1030-1051)
FallbackSuccessCleanup(st, f, model_name, result, failed, o) ==
    set_cached_response(RemoveFailed(st, failed, PrimaryModel, o),
                        _generate_cache_key(OriginalPrompt, model_name),
                        IF f = "json" THEN result ELSE Strip(result), o)

NoCall == [model |-> PrimaryModel, attempt |-> 0]

CallReset ==
    /\ qpc = "idle"
    /\ fn = "json"
    /\ fallback_models = <<>>
    /\ effective_max_retries = 1
    /\ primary_max_attempts = 1
    /\ attempt = 0
    /\ fb = 0
    /\ failed_attempts = <<>>
    /\ returned = NoEntry
    /\ accepted = NoEntry
    /\ accepted_by = NoCall
    /\ a0_malformed = FALSE
    /\ dirty = {}
    /\ calls_made = 0
    /\ call_log = <<>>

\* entry of query_json / query_text_with_retry up to the primary loop
\* (ai_client.py 426-447, 847-868); n fallback models are configured
StartCall(f, retries, n) ==
    /\ proc = "ready"
    /\ qpc = "idle"
    /\ calls_made < MaxCalls
    /\ calls_made' = calls_made + 1
    /\ qpc' = "primary"
    /\ fn' = f
    /\ fallback_models' = [m \in 1..n |-> m]
    /\ effective_max_retries' = retries
    /\ primary_max_attempts' = IF n > 0 THEN 1 ELSE retries
    /\ attempt' = 0
    /\ fb' = 0
    /\ failed_attempts' = <<>>
    /\ returned' = NoEntry
    /\ accepted' = NoEntry
    /\ accepted_by' = NoCall
    /\ a0_malformed' = FALSE
    /\ dirty' = {}
    /\ call_log' = <<>>
    /\ UNCHANGED cacheVars
    /\ UNCHANGED <<driverVars, auxVars>>

AfterPrimaryFailure_again == qpc' = "primary" /\ attempt' = attempt + 1 /\ fb' = fb

\* where the engine goes after a failed primary attempt
AfterPrimaryFailure ==
    IF attempt < primary_max_attempts - 1
    THEN /\ qpc' = "primary" /\ attempt' = attempt + 1 /\ fb' = fb
    ELSE IF fallback_models # <<>>
         THEN /\ qpc' = "fallback" /\ attempt' = 0 /\ fb' = 1
         ELSE /\ qpc' = "exhausted" /\ attempt' = attempt /\ fb' = fb

\* one attempt on a model as the loops see it: accepted (the call returns) or
\* failed (an exception or a response judged problematic); from_cache when
\* QueryWithBaseClient answered it without calling the provider
Attempted(model_name, att, current_prompt, f, q) ==
    [model |-> model_name, attempt |-> att, prompt |-> current_prompt,
     from_cache |-> ~q.raised /\ ~q.provider,
     outcome |-> IF q.raised \/ IsProblematic(f, q.result) THEN "failed" ELSE "accepted"]

\* the entries an attempt inserted into the main cache
Inserted(before, after, k) ==
    IF ~Has(before.cache, k) /\ Has(after.cache, k)
    THEN {<<k, after.cache[k]>>} ELSE {}

\* one iteration of the primary loop (ai_client.py 451-620, 872-993)
PrimaryAttempt(rid, out, o) ==
    /\ qpc = "primary"
    /\ LET current_prompt == IF attempt = 0 THEN OriginalPrompt ELSE BustedPrompt(rid)
           k == _generate_cache_key(current_prompt, PrimaryModel)
           q == QueryWithBaseClient(St, old_cache, PrimaryModel, current_prompt, out,
                                    fn = "json", o)
       IN (call_log' = Append(call_log, Attempted(PrimaryModel, attempt, current_prompt, fn, q))) /\
          IF q.raised
          THEN /\ failed_attempts' = Append(failed_attempts, current_prompt)
               /\ cache' = q.st.cache
               /\ cacheFile' = q.st.file
               /\ AfterPrimaryFailure
               /\ UNCHANGED <<returned, accepted, accepted_by, a0_malformed, dirty>>
          ELSE IF ~IsProblematic(fn, q.result)
               THEN LET s == PrimarySuccessCleanup(q.st, attempt, current_prompt, q.result,
                                                   failed_attempts, o)
                    IN /\ cache' = s.cache
                       /\ cacheFile' = s.file
                       /\ qpc' = "returned"
                       /\ returned' = IF fn = "json" THEN q.result ELSE Strip(q.result)
                       /\ accepted' = q.result
                       /\ accepted_by' = [model |-> PrimaryModel, attempt |-> attempt]
                       /\ UNCHANGED <<attempt, fb, failed_attempts, a0_malformed, dirty>>
               ELSE LET s == IF attempt = 0 THEN remove_cache_entry(q.st, k, o) ELSE q.st
                    IN /\ failed_attempts' = Append(failed_attempts, current_prompt)
                       /\ cache' = s.cache
                       /\ cacheFile' = s.file
                       /\ a0_malformed' = (a0_malformed \/ attempt = 0)
                       /\ dirty' = dirty \cup Inserted(St, q.st, k)
                       /\ AfterPrimaryFailure
                       /\ UNCHANGED <<returned, accepted, accepted_by>>
    /\ UNCHANGED <<old_cache, backupMade, proc, last_op, first_stored>>
    /\ UNCHANGED <<fn, fallback_models, effective_max_retries, primary_max_attempts,
                   calls_made>>
    /\ UNCHANGED <<driverVars, auxVars>>

\* where the engine goes when a fallback model gives up
NextFallbackModel ==
    IF fb < Len(fallback_models)
    THEN /\ qpc' = "fallback" /\ fb' = fb + 1 /\ attempt' = 0
    ELSE /\ qpc' = "exhausted" /\ fb' = fb /\ attempt' = attempt

AfterFallbackFailure_hasty == NextFallbackModel

AfterFallbackFailure ==
    IF attempt < effective_max_retries - 1
    THEN /\ qpc' = "fallback" /\ fb' = fb /\ attempt' = attempt + 1
    ELSE NextFallbackModel

\* create_ai_client for the next fallback model raises (ai_client.py 635, 729-731)
FallbackClientFails ==
    /\ qpc = "fallback"
    /\ attempt = 0
    /\ NextFallbackModel
    /\ call_log' = Append(call_log, [model |-> fallback_models[fb], attempt |-> 0,
                                     prompt |-> OriginalPrompt, from_cache |-> FALSE,
                                     outcome |-> "noclient"])
    /\ UNCHANGED cacheVars
    /\ UNCHANGED <<fn, fallback_models, effective_max_retries, primary_max_attempts,
                   failed_attempts, returned, accepted, accepted_by, a0_malformed, dirty,
                   calls_made>>
    /\ UNCHANGED <<driverVars, auxVars>>

\* one iteration of a fallback model's loop (ai_client.py 639-727, 1012-1067)
FallbackAttempt(rid, out, o) ==
    /\ qpc = "fallback"
    /\ LET model_name == fallback_models[fb]
           current_prompt == IF attempt = 0 THEN OriginalPrompt ELSE BustedPrompt(rid)
           k == _generate_cache_key(current_prompt, model_name)
           q == QueryWithBaseClient(St, old_cache, model_name, current_prompt, out,
                                    fn = "json", o)
       IN (call_log' = Append(call_log, Attempted(model_name, attempt, current_prompt, fn, q))) /\
          IF q.raised
          THEN /\ cache' = q.st.cache
               /\ cacheFile' = q.st.file
               /\ AfterFallbackFailure
               /\ UNCHANGED <<returned, accepted, accepted_by, dirty>>
          ELSE IF ~IsProblematic(fn, q.result)
               THEN LET s == FallbackSuccessCleanup(q.st, fn, model_name, q.result,
                                                    failed_attempts, o)
                    IN /\ cache' = s.cache
                       /\ cacheFile' = s.file
                       /\ qpc' = "returned"
                       /\ returned' = IF fn = "json" THEN q.result ELSE Strip(q.result)
                       /\ accepted' = q.result
                       /\ accepted_by' = [model |-> model_name, attempt |-> attempt]
                       /\ UNCHANGED <<attempt, fb, dirty>>
               ELSE /\ cache' = q.st.cache
                    /\ cacheFile' = q.st.file
                    /\ dirty' = dirty \cup Inserted(St, q.st, k)
                    /\ AfterFallbackFailure
                    /\ UNCHANGED <<returned, accepted, accepted_by>>
    /\ UNCHANGED <<old_cache, backupMade, proc, last_op, first_stored>>
    /\ UNCHANGED <<fn, fallback_models, effective_max_retries, primary_max_attempts,
                   failed_attempts, a0_malformed, calls_made>>
    /\ UNCHANGED <<driverVars, auxVars>>

\* all models exhausted: clean up and raise ModelError (ai_client.py 733-789, 1073-1116)
RaiseModelError(o) ==
    /\ qpc = "exhausted"
    /\ LET s == RemoveFailed(St, failed_attempts, PrimaryModel, o)
       IN /\ cache' = s.cache
          /\ cacheFile' = s.file
    /\ qpc' = "raised"
    /\ UNCHANGED <<old_cache, backupMade, proc, last_op, first_stored>>
    /\ UNCHANGED <<fn, fallback_models, effective_max_retries, primary_max_attempts,
                   attempt, fb, failed_attempts, returned, accepted, accepted_by,
                   a0_malformed, dirty, calls_made, call_log>>
    /\ UNCHANGED <<driverVars, auxVars>>

\* the caller takes the result (or handles the ModelError); the next call can start
EndCall ==
    /\ qpc \in {"returned", "raised"}
    /\ qpc' = "idle"
    /\ fn' = "json"
    /\ fallback_models' = <<>>
    /\ effective_max_retries' = 1
    /\ primary_max_attempts' = 1
    /\ attempt' = 0
    /\ fb' = 0
    /\ failed_attempts' = <<>>
    /\ returned' = NoEntry
    /\ accepted' = NoEntry
    /\ accepted_by' = NoCall
    /\ a0_malformed' = FALSE
    /\ dirty' = {}
    /\ call_log' = <<>>
    /\ UNCHANGED <<calls_made, cacheVars>>
    /\ UNCHANGED <<driverVars, auxVars>>

RetryNext ==
    \/ SetCacheFile /\ UNCHANGED <<callVars, driverVars, auxVars>>
    \/ \E f \in {"json", "text"}, r \in 1..MaxRetries, n \in 0..MaxFallbacks :
          StartCall(f, r, n)
    \/ \E rid \in 1..NumRequestIds, out \in ProviderOutcomes, o \in {"ok"} :
          PrimaryAttempt(rid, out, o)
    \/ FallbackClientFails
    \/ \E rid \in 1..NumRequestIds, out \in ProviderOutcomes, o \in {"ok"} :
          FallbackAttempt(rid, out, o)
    \/ RaiseModelError("ok")
    \/ EndCall

(***************************************************************************)
(* ProgressTracker (progress_tracker.py)                                   *)
(***************************************************************************)
\* a project summary: none (None), blank (''), or a text; src is <<>> for the
\* summary generated from the first snapshot and <<u>> for the summary
\* refreshed after unit u
NoSummary == [kind |-> "none", src |-> <<>>]
SummaryOf(text, src) == [kind |-> IF text = "" THEN "blank" ELSE "text", src |-> src]

\* self._data = {}
EmptyData ==
    [snapshots_hash |-> 0, project_summary |-> NoSummary,
     completed_units |-> <<>>, analysis_results |-> EmptyMap]

NoProgressFile == [kind |-> "missing", data |-> EmptyData]

_load(file) == IF file.kind = "ok" THEN file.data ELSE EmptyData

\* a completed _save: the temp file replaces the progress file
_save(data) == [kind |-> "ok", data |-> data]

\* the progress file a process killed inside _save can leave: the old file
\* (killed before os.remove), no file (killed between os.remove and
\* os.rename), the new file (killed after os.rename)
_save_interrupted(file, data) ==
    {file, _save(data)} \cup (IF file.kind = "ok" THEN {NoProgressFile} ELSE {})

is_valid_for_any(data, snapshots_hash) == TRUE

is_valid_for(data, snapshots_hash) == data.snapshots_hash = snapshots_hash

initialize(snapshots_hash) ==
    [snapshots_hash |-> snapshots_hash, project_summary |-> NoSummary,
     completed_units |-> <<>>, analysis_results |-> EmptyMap]

set_project_summary(data, summary) == [data EXCEPT !.project_summary = summary]

is_unit_completed_never(data, unit_index) == FALSE

\* the indices a list of units holds
UnitsIn(lst) == {lst[n] : n \in 1..Len(lst)}

is_unit_completed(data, unit_index) == unit_index \in UnitsIn(data.completed_units)

RECURSIVE sort(_)
\* list.sort() of a list of unit indices
sort(lst) ==
    IF lst = <<>> THEN <<>>
    ELSE LET least == CHOOSE x \in UnitsIn(lst) : \A y \in UnitsIn(lst) : x <= y
             at == CHOOSE n \in 1..Len(lst) : lst[n] = least
         IN <<least>> \o sort(SubSeq(lst, 1, at - 1) \o SubSeq(lst, at + 1, Len(lst)))

mark_unit_completed_unsorted(data, unit_index, res) ==
    [data EXCEPT !.completed_units = IF unit_index \notin UnitsIn(@)
                                     THEN Append(@, unit_index) ELSE @,
                 !.analysis_results = Put(@, unit_index, res)]

mark_unit_completed(data, unit_index, res) ==
    [data EXCEPT !.completed_units = IF unit_index \notin UnitsIn(@)
                                     THEN sort(Append(@, unit_index)) ELSE @,
                 !.analysis_results = Put(@, unit_index, res)]

\* None (NoEntry) when no result is stored
get_unit_result(data, unit_index) == Lookup(data.analysis_results, unit_index)

\* ---- calls on a ProgressTracker outside a run of cmd_analyze
\* what the calls leave alone
TrackerFrame ==
    /\ UNCHANGED <<dpc, project_summary, i, all_results, unit_result, ai_client, run_log,
                   provider_used, analysis_calls, save_cut, killed_at, runVars>>
    /\ UNCHANGED cacheVars
    /\ UNCHANGED <<callVars, auxVars>>

\* _save within a call: written, or the write of the temp file raises and
\* the progress file stays (the record in memory is changed before)
Saved(ok) == progFile' = IF ok THEN _save(tracker') ELSE progFile

\* tracker.initialize(snapshots_hash, snapshot_count)
InitializeCall(snapshots_hash, ok) ==
    /\ tracker' = initialize(snapshots_hash)
    /\ Saved(ok)
    /\ TrackerFrame

\* tracker.set_project_summary(summary)
SetProjectSummaryCall(text, ok) ==
    /\ tracker' = set_project_summary(tracker, SummaryOf(text, <<>>))
    /\ Saved(ok)
    /\ TrackerFrame

\* tracker.mark_unit_completed(unit_index, result)
MarkUnitCompletedCall(unit_index, res, ok) ==
    /\ tracker' = mark_unit_completed(tracker, unit_index, res)
    /\ Saved(ok)
    /\ TrackerFrame

\* ProgressTracker(project_name, output_dir) on the file as it is
Reload ==
    /\ tracker' = _load(progFile)
    /\ UNCHANGED progFile
    /\ TrackerFrame

TrackerNext ==
    \/ \E snapshots_hash \in 1..NumSnapshotSets, ok \in BOOLEAN :
          InitializeCall(snapshots_hash, ok)
    \/ \E text \in {"g1", ""}, ok \in BOOLEAN : SetProjectSummaryCall(text, ok)
    \/ \E unit_index \in 0..(MaxUnits - 1), res \in {"g1", ""}, ok \in BOOLEAN :
          MarkUnitCompletedCall(unit_index, res, ok)
    \/ Reload

(***************************************************************************)
(* cmd_analyze (analyze_project.py) and its LLM calls (llm_analysis.py)    *)
(***************************************************************************)
\* tiers of a unit: "minor" stands for the tiers analysed by one cached
\* call (minor_batch, minor, moderate), "major" is tool-assisted and an
\* inflection point
Tiers == {"minor", "major"}
UnitSeqs == UNION {[1..n -> Tiers] : n \in 1..MaxUnits}
SnapshotSets == 1..NumSnapshotSets

\* generate_overview answers in one call up to this many results
OneShotLimit == 10

\* what one LLM call of the pipeline ends in: a text, an empty response, or
\* an exception that make_api_call_with_retry re-raises
LLMOutcomes == {"g1", "", "exc"}

NoCut == [active |-> FALSE, before |-> NoProgressFile, after |-> NoProgressFile]

DriverReset ==
    /\ dpc = "boot"
    /\ plan_only = FALSE
    /\ curHash = 1
    /\ tracker = EmptyData
    /\ progFile = NoProgressFile
    /\ project_summary = NoSummary
    /\ i = 0
    /\ all_results = <<>>
    /\ unit_result = ""
    /\ ai_client = FALSE
    /\ run_log = FALSE
    /\ provider_used = {}
    /\ analysis_calls = <<>>
    /\ progFile0 = progFile
    /\ cacheFile0 = cacheFile
    /\ save_cut = NoCut
    /\ killed_at = "none"
    /\ resume_k = -1
    /\ rerun = FALSE
    /\ runs = 0
    /\ produced_for = EmptyMap

\* _query_llm: one cached call on the primary model, '' for an empty result
_query_llm(st, query, out) ==
    LET q == QueryWithBaseClient(st, old_cache, PrimaryModel, query, out, FALSE, "ok")
    IN [q EXCEPT !.result = IF q.raised THEN "" ELSE q.result]

\* run_tool_conversation: the provider is called on every turn, no cache
run_tool_conversation(st, out) ==
    [st |-> st, raised |-> out = "exc", provider |-> TRUE,
     result |-> IF out = "exc" THEN "" ELSE out]

\* the unit the run is about to analyse is not stored as completed
UnitInFlight ==
    /\ dpc = "loop"
    /\ i < Len(units)
    /\ ~(is_unit_completed(tracker, i) /\ get_unit_result(tracker, i) # NoEntry)

\* a new process runs cmd_analyze; the previous one has ended
StartRun(po, h) ==
    /\ dpc \in {"boot", "done", "crashed", "killed"}
    /\ runs < MaxRuns
    /\ runs' = runs + 1
    /\ plan_only' = po
    /\ curHash' = h
    /\ dpc' = IF po THEN "check" ELSE "setup"
    /\ resume_k' = IF dpc = "killed" /\ killed_at = "inflight" /\ h = curHash /\ ~po
                   THEN i ELSE -1
    /\ rerun' = (dpc = "done" /\ ~plan_only /\ ~po /\ h = curHash)
    /\ progFile0' = progFile
    /\ cacheFile0' = cacheFile
    /\ tracker' = EmptyData
    /\ project_summary' = NoSummary
    /\ i' = 0
    /\ all_results' = <<>>
    /\ unit_result' = ""
    /\ ai_client' = FALSE
    /\ run_log' = FALSE
    /\ provider_used' = {}
    /\ analysis_calls' = <<>>
    /\ save_cut' = NoCut
    /\ killed_at' = "none"
    /\ proc' = "start"
    /\ cache' = EmptyMap
    /\ first_stored' = EmptyMap
    /\ UNCHANGED <<units, produced_for, progFile, old_cache, cacheFile, backupMade, last_op>>
    /\ UNCHANGED <<callVars, auxVars>>

cacheIdle == <<cache, old_cache, cacheFile, backupMade, proc, last_op, first_stored>>

\* set_cache_file, set_run_logfile, create_ai_client (analyze_project.py 181-189)
Setup ==
    /\ dpc = "setup"
    /\ SetCacheFile
    /\ dpc' = IF proc' = "crashed" THEN "crashed" ELSE "check"
    /\ ai_client' = (proc' = "ready")
    /\ UNCHANGED <<tracker, progFile, project_summary, i, all_results, unit_result, run_log,
                   provider_used, analysis_calls, save_cut, killed_at, runVars>>
    /\ UNCHANGED <<callVars, auxVars>>

\* phase 1 and the progress check up to the decision to start fresh
\* (analyze_project.py 191-208)
CheckProgress ==
    /\ dpc = "check"
    /\ tracker' = _load(progFile)
    /\ dpc' = IF is_valid_for(tracker', curHash) THEN "plan" ELSE "initialize"
    /\ UNCHANGED <<progFile, project_summary, i, all_results, unit_result, ai_client, run_log,
                   provider_used, analysis_calls, save_cut, killed_at, runVars>>
    /\ UNCHANGED cacheIdle
    /\ UNCHANGED <<callVars, auxVars>>

\* tracker.initialize(snapshots_hash, len(snapshots)) (analyze_project.py 209-210)
Initialize ==
    /\ dpc = "initialize"
    /\ tracker' = initialize(curHash)
    /\ progFile' = _save(tracker')
    /\ produced_for' = EmptyMap
    /\ dpc' = "plan"
    /\ UNCHANGED <<project_summary, i, all_results, unit_result, ai_client, run_log,
                   provider_used, analysis_calls, save_cut, killed_at, startVars>>
    /\ UNCHANGED cacheIdle
    /\ UNCHANGED <<callVars, auxVars>>

\* phases 2 and 3, and the --plan-only return (analyze_project.py 215-240)
Plan ==
    /\ dpc = "plan"
    /\ dpc' = IF plan_only THEN "done" ELSE "phase4"
    /\ UNCHANGED <<tracker, progFile, project_summary, i, all_results, unit_result,
                   ai_client, run_log, provider_used, analysis_calls, save_cut, killed_at,
                   runVars>>
    /\ UNCHANGED cacheIdle
    /\ UNCHANGED <<callVars, auxVars>>

\* where the run continues once unit n - 1 is dealt with
AfterUnit_leaving(n) == "phase6"

AfterUnit(n) == IF n < Len(units) THEN "loop" ELSE "phase6"

\* phase 4 with a stored summary (analyze_project.py 244-246)
UseSummary ==
    /\ dpc = "phase4"
    /\ tracker.project_summary.kind = "text"
    /\ project_summary' = tracker.project_summary
    /\ i' = 0
    /\ all_results' = <<>>
    /\ dpc' = AfterUnit(0)
    /\ UNCHANGED <<tracker, progFile, unit_result, ai_client, run_log, provider_used,
                   analysis_calls, save_cut, killed_at, runVars>>
    /\ UNCHANGED cacheIdle
    /\ UNCHANGED <<callVars, auxVars>>

\* the effect of one LLM call of the run on the cache and on the history
LLMCall(q, kind) ==
    /\ cache' = q.st.cache
    /\ cacheFile' = q.st.file
    /\ provider_used' = IF q.provider THEN provider_used \cup {kind} ELSE provider_used
    /\ UNCHANGED <<old_cache, backupMade, proc, last_op, first_stored>>

\* phase 4 without one: generate_project_summary (analyze_project.py 247-256)
GenerateSummary(out) ==
    /\ dpc = "phase4"
    /\ tracker.project_summary.kind # "text"
    /\ LET q == _query_llm(St, <<"summary", curHash, 0, 0>>, out)
       IN /\ LLMCall(q, "summary")
          /\ run_log' = (run_log \/ (q.provider /\ ~q.raised))
          /\ dpc' = IF q.raised THEN "crashed" ELSE "save_summary"
          /\ project_summary' = IF q.raised THEN project_summary
                                ELSE SummaryOf(q.result, <<>>)
    /\ UNCHANGED <<tracker, progFile, i, all_results, unit_result, ai_client,
                   analysis_calls, save_cut, killed_at, runVars>>
    /\ UNCHANGED <<callVars, auxVars>>

\* tracker.set_project_summary(project_summary) of phase 4 (analyze_project.py 257)
SaveSummary ==
    /\ dpc = "save_summary"
    /\ tracker' = set_project_summary(tracker, project_summary)
    /\ progFile' = _save(tracker')
    /\ i' = 0
    /\ all_results' = <<>>
    /\ dpc' = AfterUnit(0)
    /\ UNCHANGED <<project_summary, unit_result, ai_client, run_log, provider_used,
                   analysis_calls, save_cut, killed_at, runVars>>
    /\ UNCHANGED cacheIdle
    /\ UNCHANGED <<callVars, auxVars>>

\* phase 5, a unit stored as completed (analyze_project.py 265-270)
SkipUnit ==
    /\ dpc = "loop"
    /\ i < Len(units)
    /\ is_unit_completed(tracker, i)
    /\ get_unit_result(tracker, i) # NoEntry
    /\ all_results' = Append(all_results, get_unit_result(tracker, i))
    /\ i' = i + 1
    /\ dpc' = AfterUnit(i + 1)
    /\ UNCHANGED <<tracker, progFile, project_summary, unit_result, ai_client, run_log,
                   provider_used, analysis_calls, save_cut, killed_at, runVars>>
    /\ UNCHANGED cacheIdle
    /\ UNCHANGED <<callVars, auxVars>>

\* analyze_unit dispatches on the tier (llm_analysis.py 688-741)
analyze_unit(st, unit_index, summary, out) ==
    IF units[unit_index + 1] = "major"
    THEN run_tool_conversation(st, out)
    ELSE _query_llm(st, <<"unit", curHash, unit_index, summary>>, out)

\* phase 5, analyze_unit of the next unit (analyze_project.py 272-277)
AnalyzeUnit(out) ==
    /\ UnitInFlight
    /\ LET q == analyze_unit(St, i, project_summary, out)
       IN /\ LLMCall(q, "unit")
          /\ run_log' = (run_log \/ (q.provider /\ ~q.raised /\ units[i + 1] # "major"))
          /\ dpc' = IF q.raised THEN "crashed" ELSE "mark"
          /\ unit_result' = q.result
    /\ analysis_calls' = Append(analysis_calls, i)
    /\ UNCHANGED <<tracker, progFile, project_summary, i, all_results, ai_client,
                   save_cut, killed_at, runVars>>
    /\ UNCHANGED <<callVars, auxVars>>

\* all_results.append and tracker.mark_unit_completed (analyze_project.py 278-279)
MarkUnitCompleted ==
    /\ dpc = "mark"
    /\ all_results' = Append(all_results, unit_result)
    /\ tracker' = mark_unit_completed(tracker, i, unit_result)
    /\ progFile' = _save(tracker')
    /\ produced_for' = Put(produced_for, i, units[i + 1])
    /\ IF units[i + 1] = "major"
       THEN dpc' = "refresh" /\ i' = i
       ELSE dpc' = AfterUnit(i + 1) /\ i' = i + 1
    /\ UNCHANGED <<project_summary, unit_result, ai_client, run_log, provider_used,
                   analysis_calls, save_cut, killed_at, startVars>>
    /\ UNCHANGED cacheIdle
    /\ UNCHANGED <<callVars, auxVars>>

\* refresh_project_summary at an inflection point (analyze_project.py 282-294)
RefreshSummary(out) ==
    /\ dpc = "refresh"
    /\ LET q == _query_llm(St, <<"refresh", curHash, i, project_summary>>, out)
       IN /\ LLMCall(q, "refresh")
          /\ run_log' = (run_log \/ (q.provider /\ ~q.raised))
          /\ dpc' = IF q.raised THEN "crashed" ELSE "save_refresh"
          /\ project_summary' = IF q.raised THEN project_summary
                                ELSE SummaryOf(q.result, <<i>>)
    /\ UNCHANGED <<tracker, progFile, i, all_results, unit_result, ai_client,
                   analysis_calls, save_cut, killed_at, runVars>>
    /\ UNCHANGED <<callVars, auxVars>>

\* tracker.set_project_summary of the refreshed summary (analyze_project.py 295)
SaveRefreshedSummary ==
    /\ dpc = "save_refresh"
    /\ tracker' = set_project_summary(tracker, project_summary)
    /\ progFile' = _save(tracker')
    /\ i' = i + 1
    /\ dpc' = AfterUnit(i + 1)
    /\ UNCHANGED <<project_summary, all_results, unit_result, ai_client, run_log,
                   provider_used, analysis_calls, save_cut, killed_at, runVars>>
    /\ UNCHANGED cacheIdle
    /\ UNCHANGED <<callVars, auxVars>>

\* generate_overview (llm_analysis.py 582-601)
generate_overview(st, results, out) ==
    IF Len(results) <= OneShotLimit
    THEN _query_llm(st, <<"overview", curHash, results, 0>>, out)
    ELSE run_tool_conversation(st, out)

\* phase 6 (analyze_project.py 299-308)
Report(out) ==
    /\ dpc = "phase6"
    /\ LET q == generate_overview(St, all_results, out)
       IN /\ LLMCall(q, "overview")
          /\ run_log' = (run_log \/ (q.provider /\ ~q.raised
                                      /\ Len(all_results) <= OneShotLimit))
          /\ dpc' = IF q.raised THEN "crashed" ELSE "done"
    /\ UNCHANGED <<tracker, progFile, project_summary, i, all_results, unit_result, ai_client,
                   analysis_calls, save_cut, killed_at, runVars>>
    /\ UNCHANGED <<callVars, auxVars>>

\* the memory of a process that has ended
ProcessGone ==
    /\ tracker' = EmptyData
    /\ project_summary' = NoSummary
    /\ all_results' = <<>>
    /\ unit_result' = ""

\* the process is killed outside a ProgressTracker save; a unit is in flight
\* from the call of analyze_unit until mark_unit_completed begins
Kill ==
    /\ dpc \in {"setup", "check", "initialize", "plan", "phase4", "save_summary", "loop",
                "mark", "refresh", "save_refresh", "phase6"}
    /\ dpc' = "killed"
    /\ killed_at' = IF UnitInFlight \/ dpc = "mark" THEN "inflight" ELSE "other"
    /\ i' = IF UnitInFlight \/ dpc = "mark" THEN i ELSE 0
    /\ ProcessGone
    /\ UNCHANGED <<progFile, ai_client, run_log, provider_used, analysis_calls, save_cut,
                   runVars>>
    /\ UNCHANGED cacheIdle
    /\ UNCHANGED <<callVars, auxVars>>

\* the record the save at the run's position is about to write
PendingData ==
    CASE dpc = "initialize" -> initialize(curHash)
      [] dpc = "mark" -> mark_unit_completed(tracker, i, unit_result)
      [] OTHER -> set_project_summary(tracker, project_summary)

\* the process is killed inside ProgressTracker._save
KillInSave ==
    /\ dpc \in {"initialize", "save_summary", "mark", "save_refresh"}
    /\ \E f \in _save_interrupted(progFile, PendingData) :
          /\ progFile' = f
          /\ save_cut' = [active |-> TRUE, before |-> progFile, after |-> _save(PendingData)]
          /\ produced_for' =
                CASE f = _save(PendingData) /\ dpc = "initialize" -> EmptyMap
                  [] f = _save(PendingData) /\ dpc = "mark" ->
                        Put(produced_for, i, units[i + 1])
                  [] OTHER -> produced_for
    /\ dpc' = "killed"
    /\ killed_at' = "save"
    /\ i' = 0
    /\ ProcessGone
    /\ UNCHANGED <<ai_client, run_log, provider_used, analysis_calls, startVars>>
    /\ UNCHANGED cacheIdle
    /\ UNCHANGED <<callVars, auxVars>>

DriverNext ==
    \/ \E po \in BOOLEAN, h \in SnapshotSets : StartRun(po, h)
    \/ Setup
    \/ CheckProgress
    \/ Initialize
    \/ Plan
    \/ UseSummary
    \/ \E out \in LLMOutcomes : GenerateSummary(out)
    \/ SaveSummary
    \/ SkipUnit
    \/ \E out \in LLMOutcomes : AnalyzeUnit(out)
    \/ MarkUnitCompleted
    \/ \E out \in LLMOutcomes : RefreshSummary(out)
    \/ SaveRefreshedSummary
    \/ \E out \in LLMOutcomes : Report(out)
    \/ Kill
    \/ KillInSave

\* between two runs the archives' contents or the binary-extension
\* configuration change and the snapshot paths stay: compute_snapshots_hash
\* (progress_tracker.py 71-75) yields the same fingerprint,
\* plan_analysis_units (analyze_project.py 228-233) another plan
ChangeArchives(new_units) ==
    /\ dpc \in {"done", "crashed"}
    /\ runs < MaxRuns
    /\ new_units # units
    /\ units' = new_units
    /\ UNCHANGED <<dpc, tracker, progFile, project_summary, i, all_results, unit_result,
                   ai_client, run_log, provider_used, analysis_calls, save_cut, killed_at,
                   plan_only, curHash, progFile0, cacheFile0, resume_k, rerun, runs,
                   produced_for>>
    /\ UNCHANGED cacheIdle
    /\ UNCHANGED <<callVars, auxVars>>

\* runs on one set of snapshot paths that end by themselves (completed or
\* crashed), and the change
ResumeNext ==
    \/ \E po \in BOOLEAN : StartRun(po, curHash)
    \/ Setup
    \/ CheckProgress
    \/ Initialize
    \/ Plan
    \/ UseSummary
    \/ \E out \in LLMOutcomes : GenerateSummary(out)
    \/ SaveSummary
    \/ SkipUnit
    \/ \E out \in LLMOutcomes : AnalyzeUnit(out)
    \/ MarkUnitCompleted
    \/ \E out \in LLMOutcomes : RefreshSummary(out)
    \/ SaveRefreshedSummary
    \/ \E out \in LLMOutcomes : Report(out)
    \/ \E new_units \in UnitSeqs : ChangeArchives(new_units)

DriverInit ==
    /\ cache = EmptyMap
    /\ old_cache = EmptyMap
    /\ cacheFile \in {[kind |-> "missing", map |-> EmptyMap],
                      [kind |-> "corrupt", map |-> EmptyMap]}
    /\ backupMade = FALSE
    /\ proc = "start"
    /\ last_op = NoOp
    /\ first_stored = EmptyMap
    /\ units \in UnitSeqs

\* no run of cmd_analyze takes place
DriverIdle == DriverReset /\ units = <<"minor">>

(***************************************************************************)
(* One single-shot request of the pipeline: _query_llm runs                *)
(* QueryWithBaseClient under make_api_call_with_retry, and the client's    *)
(* create_message runs the provider call under make_api_call_with_retry    *)
(* once more (utils/ai_client.py 1390, 1489, 1668).                        *)
(***************************************************************************)
max_retries == 5
base_delay == 2

TransientErrors == {"rate limit", "connection", "server", "timeout"}
ProviderErrors == TransientErrors \cup {"unknown"}

\* make_api_call_with_retry: is_retryable
is_retryable(e) == e \in TransientErrors

\* make_api_call_with_retry: exponential_delay (the jitter of up to 10% comes on top)
exponential_delay(att) == base_delay * (2 ^ att)

\* make_api_call_with_retry after api_call_func raised e on attempt att:
\* sleep and call again, or re-raise e
make_api_call_with_retry(e, att) ==
    IF is_retryable(e) /\ att < max_retries - 1 THEN "retry" ELSE "raise"

RequestReset ==
    /\ rpc = "idle"
    /\ outer_attempt = 0
    /\ inner_attempt = 0
    /\ invocations = 0
    /\ waits = <<>>
    /\ last_error = "none"

\* _query_llm is called: make_api_call_with_retry(_call) starts its loop
StartRequest ==
    /\ rpc = "idle"
    /\ rpc' = "outer"
    /\ UNCHANGED <<outer_attempt, inner_attempt, invocations, waits, last_error>>
    /\ UNCHANGED exceptRequestVars

\* _call: QueryWithBaseClient misses the cache and calls create_message, which
\* starts its own make_api_call_with_retry(_make_api_call)
OuterCall ==
    /\ rpc = "outer"
    /\ rpc' = "inner"
    /\ inner_attempt' = 0
    /\ UNCHANGED <<outer_attempt, invocations, waits, last_error>>
    /\ UNCHANGED exceptRequestVars

\* _make_api_call: one invocation of the provider, answered by a response or
\* by error e, and what the two retry wrappers do with it
ProviderInvoke(e) ==
    /\ rpc = "inner"
    /\ invocations' = invocations + 1
    /\ IF e = "ok"
       THEN /\ rpc' = "done"
            /\ UNCHANGED <<outer_attempt, inner_attempt, waits, last_error>>
       ELSE /\ last_error' = e
            /\ IF make_api_call_with_retry(e, inner_attempt) = "retry"
               THEN /\ waits' = Append(waits, exponential_delay(inner_attempt))
                    /\ inner_attempt' = inner_attempt + 1
                    /\ rpc' = "inner"
                    /\ UNCHANGED outer_attempt
               ELSE \* e leaves create_message and QueryWithBaseClient and reaches
                    \* the wrapper in _query_llm
                    IF make_api_call_with_retry(e, outer_attempt) = "retry"
                    THEN /\ waits' = Append(waits, exponential_delay(outer_attempt))
                         /\ outer_attempt' = outer_attempt + 1
                         /\ rpc' = "outer"
                         /\ UNCHANGED inner_attempt
                    ELSE /\ rpc' = "raised"
                         /\ UNCHANGED <<outer_attempt, inner_attempt, waits>>
    /\ UNCHANGED exceptRequestVars

RequestNext ==
    \/ StartRequest
    \/ OuterCall
    \/ \E e \in {"ok"} \cup ProviderErrors : ProviderInvoke(e)

(***************************************************************************)
(* plan_analysis_units (change_analyzer.py 178-273)                        *)
(***************************************************************************)
\* magnitudes and thresholds are floats in the code; small integers stand
\* for them, compared and added as the code compares and adds them
MagnitudeValues == 0..MaxMagnitude

RECURSIVE SumAt(_, _)
\* minor_batch_magnitude: the sum of the magnitudes at the batch's indices
SumAt(mags, idxs) ==
    IF idxs = <<>> THEN 0 ELSE mags[Head(idxs) + 1] + SumAt(mags, Tail(idxs))

AnalysisUnit(first, last, trs, t, total, inflection) ==
    [snapshot_range |-> <<first, last>>, transitions |-> trs, tier |-> t,
     total_magnitude |-> total, is_inflection_point |-> inflection]

\* the loop's state: units and the pending batch of minor transitions
NoBatch(us) == [units |-> us, minor_batch_transitions |-> <<>>]

flush_minor_batch_dropping(st, mags) == NoBatch(st.units)

flush_minor_batch_unsplit(st, mags) ==
    LET b == st.minor_batch_transitions
    IN IF b = <<>> THEN st
       ELSE NoBatch(Append(st.units,
                AnalysisUnit(b[1], b[Len(b)] + 1, b, "minor_batch", SumAt(mags, b), FALSE)))

flush_minor_batch(st, mags) ==
    LET b == st.minor_batch_transitions
    IN IF b = <<>> THEN st
       ELSE IF Len(b) = 1
            THEN NoBatch(Append(st.units,
                     AnalysisUnit(b[1], b[1] + 1, <<b[1]>>, "minor", mags[b[1] + 1], FALSE)))
            ELSE NoBatch(Append(st.units,
                     AnalysisUnit(b[1], b[Len(b)] + 1, b, "minor_batch", SumAt(mags, b),
                                  FALSE)))

RECURSIVE PlanLoop_below(_, _, _, _)
PlanLoop_below(st, mags, bp, idx) ==
    IF idx >= Len(mags) THEN st
    ELSE LET mag == mags[idx + 1]
         IN IF mag < bp.minor_threshold
            THEN PlanLoop_below([st EXCEPT !.minor_batch_transitions = Append(@, idx)],
                                mags, bp, idx + 1)
            ELSE LET f == flush_minor_batch(st, mags)
                     major == mag >= bp.major_threshold
                     u == AnalysisUnit(idx, idx + 1, <<idx>>,
                                       IF major THEN "major" ELSE "moderate", mag, major)
                 IN PlanLoop_below([f EXCEPT !.units = Append(@, u)], mags, bp, idx + 1)

RECURSIVE PlanLoop(_, _, _, _)
\* for i, mag in enumerate(magnitudes), from index idx on
PlanLoop(st, mags, bp, idx) ==
    IF idx >= Len(mags) THEN st
    ELSE LET mag == mags[idx + 1]
         IN IF mag <= bp.minor_threshold
            THEN PlanLoop([st EXCEPT !.minor_batch_transitions = Append(@, idx)],
                          mags, bp, idx + 1)
            ELSE LET f == flush_minor_batch(st, mags)
                     major == mag >= bp.major_threshold
                     u == AnalysisUnit(idx, idx + 1, <<idx>>,
                                       IF major THEN "major" ELSE "moderate", mag, major)
                 IN PlanLoop([f EXCEPT !.units = Append(@, u)], mags, bp, idx + 1)

plan_analysis_units(mags, bp) ==
    flush_minor_batch(PlanLoop(NoBatch(<<>>), mags, bp, 0), mags).units

PlanIdle ==
    /\ ppc = "input"
    /\ magnitudes = <<0>>
    /\ breakpoints = [minor_threshold |-> 0, major_threshold |-> 0]
    /\ analysis_units = <<>>

PlanInit ==
    /\ ppc = "input"
    /\ magnitudes \in UNION {[1..n -> MagnitudeValues] : n \in 1..MaxTransitions}
    /\ breakpoints \in [minor_threshold : MagnitudeValues, major_threshold : MagnitudeValues]
    /\ analysis_units = <<>>

\* units = plan_analysis_units(len(snapshots), diffs, magnitudes, breakpoints)
PlanUnits ==
    /\ ppc = "input"
    /\ analysis_units' = plan_analysis_units(magnitudes, breakpoints)
    /\ ppc' = "planned"
    /\ UNCHANGED <<magnitudes, breakpoints>>
    /\ UNCHANGED exceptPlanVars

PlanNext == PlanUnits

(***************************************************************************)
(* find_breakpoints (change_analyzer.py 71-175)                            *)
(*                                                                         *)
(* The number k stands for the float k * 0.0025.  Measured magnitudes are  *)
(* multiples of 20 (0.05); every threshold the function computes from them *)
(* is then an integer, and round(x, 6) leaves it as it is.  Equal gaps are *)
(* ordered as exact arithmetic orders them.                                *)
(***************************************************************************)
MeasuredValues == {20 * v : v \in MagnitudeValues}

default_minor_threshold == 20
default_major_threshold == 80

RECURSIVE Insert(_, _)
Insert(x, srt) ==
    IF srt = <<>> THEN <<x>>
    ELSE IF x <= Head(srt) THEN <<x>> \o srt
         ELSE <<Head(srt)>> \o Insert(x, Tail(srt))

RECURSIVE sorted(_)
\* sorted(magnitudes)
sorted(mags) == IF mags = <<>> THEN <<>> ELSE Insert(Head(mags), sorted(Tail(mags)))

RECURSIVE SumOf(_)
SumOf(mags) == IF mags = <<>> THEN 0 ELSE Head(mags) + SumOf(Tail(mags))

RECURSIVE SumOfSquares(_)
SumOfSquares(mags) ==
    IF mags = <<>> THEN 0 ELSE Head(mags) * Head(mags) + SumOfSquares(Tail(mags))

\* std_dev < mean_val * 0.3 and mean_val > 0, with variance = sum(x^2)/n - mean^2:
\* both sides squared and multiplied by 100 * n^2
is_uniform(mags) ==
    LET n == Len(mags)
        total == SumOf(mags)
    IN /\ 100 * (n * SumOfSquares(mags) - total * total) < 9 * total * total
       /\ total > 0

\* gaps.sort(reverse=True): (gap, i) tuples in descending order; idx is 0-based
GapBefore(srt, idx, other) ==
    LET g == srt[idx + 2] - srt[idx + 1]
        h == srt[other + 2] - srt[other + 1]
    IN g > h \/ (g = h /\ idx > other)

\* the index held by gaps[0]
LargestGap(srt, among) == CHOOSE a \in among : \A b \in among \ {a} : GapBefore(srt, a, b)

Midpoint(srt, idx) == (srt[idx + 1] + srt[idx + 2]) \div 2

BreakpointResult(minor, major) == [minor_threshold |-> minor, major_threshold |-> major]

find_breakpoints(mags) ==
    IF mags = <<>>
    THEN BreakpointResult(default_minor_threshold, default_major_threshold)
    ELSE LET n == Len(mags)
             sorted_mags == sorted(mags)
             median_val == IF n % 2 = 1 THEN sorted_mags[n \div 2 + 1]
                           ELSE (sorted_mags[n \div 2] + sorted_mags[n \div 2 + 1]) \div 2
             q1 == IF n >= 4 THEN sorted_mags[n \div 4 + 1] ELSE sorted_mags[1]
             q3 == IF n >= 4 THEN sorted_mags[(3 * n) \div 4 + 1] ELSE sorted_mags[n]
         IN IF n < 5
            THEN BreakpointResult(median_val,
                                  IF n >= 4 THEN q3 ELSE (sorted_mags[n] * 4) \div 5)
            ELSE IF is_uniform(mags)
                 THEN BreakpointResult(q1, q3)
                 ELSE \* n >= 5, so len(gaps) >= 2 and the two-value branch is not reached
                      LET idxs == 0..(n - 2)
                          g0 == LargestGap(sorted_mags, idxs)
                          g1 == LargestGap(sorted_mags, idxs \ {g0})
                          b0 == IF g0 < g1 THEN g0 ELSE g1
                          b1 == IF g0 < g1 THEN g1 ELSE g0
                          minor == Midpoint(sorted_mags, b0)
                          major == Midpoint(sorted_mags, b1)
                      IN IF minor >= major
                         THEN LET m == Midpoint(sorted_mags, g0)
                              IN BreakpointResult(m, m + (sorted_mags[n] - m) \div 2)
                         ELSE BreakpointResult(minor, major)

\* phase 2 has measured the magnitudes of all transitions
MeasuredInit ==
    /\ ppc = "measured"
    /\ magnitudes \in UNION {[1..n -> MeasuredValues] : n \in 0..MaxMeasured}
    /\ breakpoints = BreakpointResult(0, 0)
    /\ analysis_units = <<>>

\* breakpoints = find_breakpoints(all_magnitudes) (analyze_project.py 232)
FindBreakpoints ==
    /\ ppc = "measured"
    /\ breakpoints' = find_breakpoints(magnitudes)
    /\ ppc' = "input"
    /\ UNCHANGED <<magnitudes, analysis_units>>
    /\ UNCHANGED exceptPlanVars

BreakpointNext == FindBreakpoints \/ PlanUnits

(***************************************************************************)
(* diff_snapshots (snapshot_diff.py 199-335), from the two file            *)
(* inventories on: a file is its relative path and its content hash        *)
(***************************************************************************)
Paths == 1..NumPaths
Hashes == 1..NumHashes

\* _walk_files: path -> file, 0 where the snapshot has no such file
Inventories == [Paths -> 0..NumHashes]

\* files.keys()
keys(files) == {p \in Paths : files[p] # 0}

RECURSIVE sorted_paths(_)
\* sorted(paths)
sorted_paths(ps) ==
    IF ps = {} THEN <<>>
    ELSE LET first == CHOOSE p \in ps : \A q \in ps : p <= q
         IN <<first>> \o sorted_paths(ps \ {first})

\* old_hashes[h] / new_hashes[h]: the paths of ps whose file has hash h, in the
\* order in which the set ps is iterated; position is the place of a path in
\* that order
hash_list(files, ps, h) == {p \in ps : files[p] = h}

index_in(p, lst, position) == Cardinality({q \in lst : position[q] < position[p]})

\* moved: for every hash on both sides, old_list[i] with new_list[i]
moved_pairs(olds, news, only_old, only_new, position) ==
    {pr \in only_old \X only_new :
        /\ olds[pr[1]] = news[pr[2]]
        /\ index_in(pr[1], hash_list(olds, only_old, olds[pr[1]]), position)
           = index_in(pr[2], hash_list(news, only_new, news[pr[2]]), position)}

RECURSIVE sorted_moves(_)
\* moved.sort(key=lambda x: x[1])
sorted_moves(prs) ==
    IF prs = {} THEN <<>>
    ELSE LET first == CHOOSE pr \in prs : \A qr \in prs : pr[2] <= qr[2]
         IN <<first>> \o sorted_moves(prs \ {first})

added_with_moved(only_new, moved_new) == sorted_paths(only_new)

\* added = sorted(p for p in only_new if p not in moved_new)
added_paths(only_new, moved_new) == sorted_paths(only_new \ moved_new)

\* position: the iteration order of the sets only_old and only_new;
\* undiffable: the common paths for which _compute_diff returns None
diff_snapshots(olds, news, position, undiffable) ==
    LET old_paths == keys(olds)
        new_paths == keys(news)
        only_old == old_paths \ new_paths
        only_new == new_paths \ old_paths
        common == old_paths \cap new_paths
        moved == moved_pairs(olds, news, only_old, only_new, position)
        moved_old == {pr[1] : pr \in moved}
        moved_new == {pr[2] : pr \in moved}
        same == {p \in common : olds[p] = news[p]}
    IN [added |-> added_paths(only_new, moved_new),
        removed |-> sorted_paths(only_old \ moved_old),
        modified |-> sorted_paths((common \ same) \ undiffable),
        moved |-> sorted_moves(moved),
        unchanged |-> sorted_paths(same \cup (common \cap undiffable)),
        new_file_listing |-> sorted_paths(new_paths),
        old_file_listing |-> sorted_paths(old_paths)]

NoDiff ==
    [added |-> <<>>, removed |-> <<>>, modified |-> <<>>, moved |-> <<>>,
     unchanged |-> <<>>, new_file_listing |-> <<>>, old_file_listing |-> <<>>]

DiffIdle ==
    /\ spc = "input"
    /\ old_files = [p \in Paths |-> 0]
    /\ new_files = [p \in Paths |-> 0]
    /\ snapshot_diff = NoDiff
    /\ undiffable_paths = {}
    /\ first_diff = NoDiff

DiffInit ==
    /\ spc = "input"
    /\ old_files \in Inventories
    /\ new_files \in Inventories
    /\ snapshot_diff = NoDiff
    /\ undiffable_paths = {}
    /\ first_diff = NoDiff

\* d = diff_snapshots(old_snap.path, new_snap.path, binary_ext)
DiffSnapshots(position, undiffable) ==
    /\ spc = "input"
    /\ snapshot_diff' = diff_snapshots(old_files, new_files, position, undiffable)
    /\ spc' = "diffed"
    /\ undiffable_paths' = undiffable
    /\ UNCHANGED <<old_files, new_files, first_diff>>
    /\ UNCHANGED exceptDiffVars

\* a second run of diff_snapshots on the same two archives, in another process
DiffSnapshotsAgain(position) ==
    /\ spc = "diffed"
    /\ first_diff' = snapshot_diff
    /\ snapshot_diff' = diff_snapshots(old_files, new_files, position, undiffable_paths)
    /\ spc' = "rediffed"
    /\ UNCHANGED <<old_files, new_files, undiffable_paths>>
    /\ UNCHANGED exceptDiffVars

DiffNext ==
    \E position \in Permutations(Paths) :
        \/ \E undiffable \in SUBSET Paths : DiffSnapshots(position, undiffable)
        \/ DiffSnapshotsAgain(position)

(***************************************************************************)
(* discover_snapshots (snapshot_discovery.py).  A file name is the record  *)
(* of its parts, name + sep + suffix + ext; a suffix is the sequence of    *)
(* its characters.                                                         *)
(***************************************************************************)
Digits == <<"0", "1", "2", "3", "4", "5", "6", "7", "8", "9">>
LowerLetters ==
    <<"a", "b", "c", "d", "e", "f", "g", "h", "i", "j", "k", "l", "m",
      "n", "o", "p", "q", "r", "s", "t", "u", "v", "w", "x", "y", "z">>

IsDigit(c) == \E d \in DOMAIN Digits : Digits[d] = c
DigitValue(c) == (CHOOSE d \in DOMAIN Digits : Digits[d] = c) - 1
IsLower(c) == \E d \in DOMAIN LowerLetters : LowerLetters[d] = c
\* ord(letter) - ord('a') + 1
LetterOrd(c) == CHOOSE d \in DOMAIN LowerLetters : LowerLetters[d] = c

\* \d+ matches all of cs
AllDigits(cs) == cs # <<>> /\ \A q \in DOMAIN cs : IsDigit(cs[q])

RECURSIVE ToInt(_)
\* int(text)
ToInt(cs) ==
    IF cs = <<>> THEN 0 ELSE 10 * ToInt(SubSeq(cs, 1, Len(cs) - 1)) + DigitValue(cs[Len(cs)])

\* (0[1-9]|1[0-2]) and (0[1-9]|[12]\d|3[01]) on two digits
MonthDigits(cs) == AllDigits(cs) /\ ToInt(cs) \in 1..12
DayDigits(cs) == AllDigits(cs) /\ ToInt(cs) \in 1..31

NoKey == <<>>

\* Pattern 1: YYYYMMDD, an optional letter, an optional _N
Pattern1(sx) ==
    IF Len(sx) >= 8 /\ AllDigits(SubSeq(sx, 1, 4)) /\ MonthDigits(SubSeq(sx, 5, 6))
       /\ DayDigits(SubSeq(sx, 7, 8))
    THEN LET rest == SubSeq(sx, 9, Len(sx))
             has_letter == rest # <<>> /\ IsLower(rest[1])
             tail == IF has_letter THEN Tail(rest) ELSE rest
             letter_ord == IF has_letter THEN LetterOrd(rest[1]) ELSE 0
             date == <<2, ToInt(SubSeq(sx, 1, 4)), ToInt(SubSeq(sx, 5, 6)),
                       ToInt(SubSeq(sx, 7, 8))>>
         IN IF tail = <<>> THEN date \o <<letter_ord, 0>>
            ELSE IF tail[1] = "_" /\ AllDigits(Tail(tail))
                 THEN date \o <<letter_ord, ToInt(Tail(tail))>>
                 ELSE NoKey
    ELSE NoKey

\* Pattern 2: YYMMDD
Pattern2(sx) ==
    IF Len(sx) = 6 /\ AllDigits(SubSeq(sx, 1, 2)) /\ MonthDigits(SubSeq(sx, 3, 4))
       /\ DayDigits(SubSeq(sx, 5, 6))
    THEN <<2, ToInt(SubSeq(sx, 1, 2)) + 2000, ToInt(SubSeq(sx, 3, 4)),
           ToInt(SubSeq(sx, 5, 6)), 0, 0>>
    ELSE NoKey

\* the positions of [-_] in sx
Separators(sx) == {q \in DOMAIN sx : sx[q] \in {"-", "_"}}

\* (\d{1,2})[-_](\d{1,2})[-_](\d{2,4}) matches sx
Pattern3Matches(sx) ==
    /\ Cardinality(Separators(sx)) = 2
    /\ LET s1 == CHOOSE q \in Separators(sx) : \A r \in Separators(sx) : q <= r
           s2 == CHOOSE q \in Separators(sx) : \A r \in Separators(sx) : q >= r
           a == SubSeq(sx, 1, s1 - 1)
           b == SubSeq(sx, s1 + 1, s2 - 1)
           c == SubSeq(sx, s2 + 1, Len(sx))
       IN /\ AllDigits(a) /\ Len(a) \in 1..2
          /\ AllDigits(b) /\ Len(b) \in 1..2
          /\ AllDigits(c) /\ Len(c) \in 2..4

Pattern3_month_first(sx) ==
    LET s1 == CHOOSE q \in Separators(sx) : \A r \in Separators(sx) : q <= r
        s2 == CHOOSE q \in Separators(sx) : \A r \in Separators(sx) : q >= r
        a == ToInt(SubSeq(sx, 1, s1 - 1))
        b == ToInt(SubSeq(sx, s1 + 1, s2 - 1))
        c == ToInt(SubSeq(sx, s2 + 1, Len(sx)))
        ymd == IF c >= 100 THEN <<c, a, b>> ELSE <<c + 2000, a, b>>
    IN IF ymd[2] \in 1..12 /\ ymd[3] \in 1..31 /\ ymd[1] \in 2000..2099
       THEN <<2>> \o ymd \o <<0, 0>>
       ELSE NoKey

\* Pattern 3: a date with separators, matched; the year heuristics and the
\* validation of snapshot_discovery.py 66-125
Pattern3(sx) ==
    LET s1 == CHOOSE q \in Separators(sx) : \A r \in Separators(sx) : q <= r
        s2 == CHOOSE q \in Separators(sx) : \A r \in Separators(sx) : q >= r
        a == ToInt(SubSeq(sx, 1, s1 - 1))
        b == ToInt(SubSeq(sx, s1 + 1, s2 - 1))
        c == ToInt(SubSeq(sx, s2 + 1, Len(sx)))
        ymd == IF c >= 100 THEN <<c, a, b>>
               ELSE IF a > 12 THEN <<a + 2000, b, c>>
               ELSE IF b > 12 THEN <<c + 2000, a, b>>
               ELSE IF c > 23 THEN <<a + 2000, b, c>>
               ELSE <<c + 2000, a, b>>
    IN IF ymd[2] \in 1..12 /\ ymd[3] \in 1..31 /\ ymd[1] \in 2000..2099
       THEN <<2>> \o ymd \o <<0, 0>>
       ELSE NoKey

RECURSIVE SplitDots(_)
\* text.split('.') for a text of digits and dots, as integers; <<>> when a
\* part is empty
SplitDots(cs) ==
    IF \A q \in DOMAIN cs : cs[q] # "."
    THEN IF AllDigits(cs) THEN <<ToInt(cs)>> ELSE <<>>
    ELSE LET d == CHOOSE q \in DOMAIN cs : cs[q] = "." /\ \A r \in 1..(q - 1) : cs[r] # "."
             rest == SplitDots(SubSeq(cs, d + 1, Len(cs)))
         IN IF AllDigits(SubSeq(cs, 1, d - 1)) /\ rest # <<>>
            THEN <<ToInt(SubSeq(cs, 1, d - 1))>> \o rest
            ELSE <<>>

\* the sort key, without the type tag that follows from its first element
_parse_suffix(sx) ==
    IF Pattern1(sx) # NoKey THEN Pattern1(sx)
    ELSE IF Pattern2(sx) # NoKey THEN Pattern2(sx)
    ELSE IF Pattern3Matches(sx) THEN Pattern3(sx)
    ELSE IF AllDigits(sx) /\ Len(sx) >= 3 THEN <<1, ToInt(sx)>>
    ELSE IF Len(SplitDots(sx)) >= 2 THEN <<0>> \o SplitDots(sx)
    ELSE IF sx # <<>> /\ sx[1] \in {"v", "V"} /\ AllDigits(Tail(sx))
         THEN <<0, ToInt(Tail(sx))>>
    ELSE NoKey

File(nm, sp, sx, ex, isfile) ==
    [name |-> nm, sep |-> sp, suffix |-> sx, ext |-> ex, is_file |-> isfile]

\* str.lower() on the words and characters that occur
lower(w) ==
    CASE w = "Doc" -> "doc" [] w = "Other" -> "other" [] w = ".ZIP" -> ".zip"
      [] w = "A" -> "a" [] w = "V" -> "v" [] OTHER -> w

project_name == "Doc"

\* the suffix, NoKey standing for None
_extract_project_and_suffix(f, project) ==
    IF lower(f.ext) # ".zip" THEN NoKey
    ELSE IF f.suffix = <<>> THEN NoKey
    ELSE IF lower(f.name) # lower(project) THEN NoKey
    ELSE IF f.sep # "_" THEN NoKey
    ELSE f.suffix

KeyLess_by_type(k1, k2) == Head(k1) < Head(k2)

\* tuple comparison of two sort keys
RECURSIVE KeyLess(_, _)
KeyLess(k1, k2) ==
    IF k1 = <<>> THEN k2 # <<>>
    ELSE IF k2 = <<>> THEN FALSE
    ELSE IF Head(k1) # Head(k2) THEN Head(k1) < Head(k2)
    ELSE KeyLess(Tail(k1), Tail(k2))

DirectoryEntries ==
    {File("Doc", "_", <<"2", "0", "2", "5", "0", "9", "0", "9", "_", "1">>, ".zip", TRUE),
     File("Doc", "_", <<"2", "0", "2", "5", "0", "9", "0", "9", "_", "2">>, ".zip", TRUE),
     File("Doc", "_", <<"2", "0", "2", "5", "0", "9", "2", "3">>, ".zip", TRUE),
     File("Doc", "_", <<"2", "0", "2", "5", "0", "9", "2", "3", "b">>, ".zip", TRUE),
     File("doc", "_", <<"0", "0", "0", "1">>, ".ZIP", TRUE),
     File("Doc", "_", <<"v", "2">>, ".zip", TRUE),
     File("Doc", "_", <<"1", ".", "0">>, ".zip", TRUE),
     File("Doc", "_", <<"f", "i", "n", "a", "l">>, ".zip", TRUE),
     File("Doc", "-", <<"2", "0", "2", "5", "0", "1", "0", "1">>, ".zip", TRUE),
     File("Other", "_", <<"2", "0", "2", "5", "0", "1", "0", "1">>, ".zip", TRUE),
     File("Doc", "_", <<"2", "5", "0", "5", "0", "7">>, ".zip", TRUE),
     File("Doc", "_", <<"8", "-", "1", "4", "-", "2", "1">>, ".zip", TRUE),
     File("Doc", "_", <<"2", "2", "-", "0", "8", "-", "0", "1">>, ".zip", TRUE),
     File("Doc", "_", <<"2", "0", "2", "5", "1", "3", "0", "1">>, ".zip", TRUE),
     File("Doc", "_", <<"2", "0", "2", "5", "1", "0", "0", "1">>, ".zip", FALSE),
     File("Doc", "_", <<"2", "0", "2", "5", "0", "9", "2", "4">>, ".txt", TRUE),
     File("Doc", "_", <<>>, ".zip", TRUE),
     File("Doc", "_", <<"A", "n", "a", "l", "y", "z", "e", "r", "_", "2", "0", "2", "5", "0", "9", "2", "3">>, ".zip", TRUE)}

SnapshotInfo(f) == [filename |-> f, label |-> f.suffix, sort_key |-> _parse_suffix(f.suffix)]

\* the files of the directory that the loop of discover_snapshots keeps
Matching(dir) == {f \in dir : _extract_project_and_suffix(f, project_name) # NoKey}
Unparseable_dropped(dir) == {}

Unparseable(dir) == {f \in Matching(dir) : _parse_suffix(f.suffix) = NoKey}
Kept(dir) == {f \in Matching(dir) \ Unparseable(dir) : f.is_file}

\* list_projects, the loop over the underscores of one file name from the
\* right: the positions in the suffix after which the rest parses
ParsingSplits(f) ==
    {p \in DOMAIN f.suffix :
        /\ f.suffix[p] = "_"
        /\ _parse_suffix(SubSeq(f.suffix, p + 1, Len(f.suffix))) # NoKey}

\* the project a file is counted for: the lowered characters before the last
\* underscore whose rest parses, as <<name>> or <<name, sep, characters...>>;
\* NoKey when the name does not end in .zip or no rest parses
candidate_name(f) ==
    IF lower(f.ext) # ".zip" THEN NoKey
    ELSE IF ParsingSplits(f) # {}
         THEN LET idx == CHOOSE p \in ParsingSplits(f) : \A q \in ParsingSplits(f) : q <= p
              IN <<lower(f.name), f.sep>> \o [q \in 1..(idx - 1) |-> lower(f.suffix[q])]
         ELSE IF f.sep = "_" /\ _parse_suffix(f.suffix) # NoKey
              THEN <<lower(f.name)>>
              ELSE NoKey

\* project_counts before the filter
project_counts(dir) ==
    [name \in {candidate_name(f) : f \in dir} \ {NoKey} |->
        Cardinality({f \in dir : candidate_name(f) = name})]

\* list_projects(zip_directory): the projects with two or more snapshots
list_projects(dir) ==
    [name \in {n \in DOMAIN project_counts(dir) : project_counts(dir)[n] >= 2} |->
        project_counts(dir)[name]]

NoError == [kind |-> "none", files |-> {}]

DiscoveryIdle ==
    /\ zpc = "input"
    /\ directory = {}
    /\ snapshots = <<>>
    /\ zip_error = NoError

DiscoveryInit ==
    /\ zpc = "input"
    /\ directory \in {d \in SUBSET DirectoryEntries : Cardinality(d) <= MaxFiles}
    /\ snapshots = <<>>
    /\ zip_error = NoError

\* discover_snapshots(zip_directory, project_name); listing is the order in
\* which snapshots.sort leaves the kept files: any order of them in which no
\* sort key precedes an earlier one (os.listdir order decides between equal keys)
DiscoverSnapshots(listing) ==
    /\ zpc = "input"
    /\ IF Unparseable(directory) # {}
       THEN /\ zpc' = "raised"
            /\ zip_error' = [kind |-> "unparseable", files |-> Unparseable(directory)]
            /\ UNCHANGED snapshots
       ELSE IF Cardinality(Kept(directory)) < 2
            THEN /\ zpc' = "raised"
                 /\ zip_error' = [kind |-> "too few", files |-> {}]
                 /\ UNCHANGED snapshots
            ELSE /\ Len(listing) = Cardinality(Kept(directory))
                 /\ {listing[q] : q \in DOMAIN listing} = Kept(directory)
                 /\ \A q \in 1..(Len(listing) - 1) :
                        ~KeyLess(_parse_suffix(listing[q + 1].suffix),
                                 _parse_suffix(listing[q].suffix))
                 /\ snapshots' = [q \in DOMAIN listing |-> SnapshotInfo(listing[q])]
                 /\ zpc' = "returned"
                 /\ UNCHANGED zip_error
    /\ UNCHANGED directory
    /\ UNCHANGED exceptDiscoveryVars

RECURSIVE Orderings(_)
\* the orders in which os.listdir can yield the files fs
Orderings(fs) ==
    IF fs = {} THEN {<<>>}
    ELSE UNION {{<<f>> \o rest : rest \in Orderings(fs \ {f})} : f \in fs}

\* the digit groups of the separator dates a-b-c that are tried
FirstGroups == {<<"0">>, <<"8">>, <<"1", "2">>, <<"1", "3">>, <<"2", "2">>}
SecondGroups == {<<"0">>, <<"0", "8">>, <<"1", "1">>, <<"1", "2">>, <<"1", "3">>, <<"3", "2">>}
ThirdGroups ==
    {<<"0", "0">>,
     <<"2", "1">>,
     <<"2", "3">>,
     <<"2", "4">>,
     <<"3", "1">>,
     <<"3", "2">>,
     <<"1", "0", "0">>,
     <<"2", "0", "2", "1">>,
     <<"2", "1", "0", "0">>}

VersionFile == File("Doc", "_", <<"v", "2">>, ".zip", TRUE)

\* a directory of two files of the project: a version-labelled one and one
\* with a separator date
SeparatorDateInit ==
    /\ zpc = "input"
    /\ \E a \in FirstGroups, b \in SecondGroups, c \in ThirdGroups,
          s1 \in {"-", "_"}, s2 \in {"-", "_"} :
          directory = {VersionFile,
                       File("Doc", "_", a \o <<s1>> \o b \o <<s2>> \o c, ".zip", TRUE)}
    /\ snapshots = <<>>
    /\ zip_error = NoError

DiscoveryNext ==
    \E listing \in Orderings(Kept(directory)) : DiscoverSnapshots(listing)

\* no cache file is in use
(***************************************************************************)
(* run_tool_conversation.  A tool call of a model response is a record of  *)
(* its id, its tool name and what the handler of that name does when it is *)
(* called with the call's input.                                           *)
(***************************************************************************)
default_max_turns == 25

Platforms == {"anthropic", "openai", "other"}
ToolNames == {"get_file_diff", "no_such_tool"}
\* the tool_handlers map: the names that have a handler
tool_handlers == {"get_file_diff"}

ToolCall(id, nm, raises) == [id |-> id, name |-> nm, raises |-> raises]

\* only a handler that exists can raise
ToolCalls ==
    {tc \in {ToolCall(id, nm, raises) :
                id \in 1..NumCallIds, nm \in ToolNames, raises \in BOOLEAN} :
        tc.raises => tc.name \in tool_handlers}

\* what a model turn can answer: a text, possibly empty, and tool calls
Responses ==
    [text : {"", "t"},
     tool_calls : UNION {[1..n -> ToolCalls] : n \in 0..MaxToolCalls}]

NoResponse == [text |-> "", tool_calls |-> <<>>]

\* result_str of one call: the handler's value, the error, or the unknown tool
result_str(tc) ==
    IF tc.name \in tool_handlers
    THEN IF tc.raises THEN "Error" ELSE "value"
    ELSE "Unknown tool"

ToolResult(tc) ==
    [type |-> "tool_result", tool_use_id |-> tc.id, content |-> result_str(tc),
     is_error |-> result_str(tc) # "value"]

RECURSIVE _execute_tools_known_only(_, _)
_execute_tools_known_only(tool_calls, on_platform) ==
    IF tool_calls = <<>> THEN <<>>
    ELSE (IF on_platform = "anthropic" /\ Head(tool_calls).name \in tool_handlers
          THEN <<ToolResult(Head(tool_calls))>> ELSE <<>>)
         \o _execute_tools_known_only(Tail(tool_calls), on_platform)

RECURSIVE _execute_tools(_, _)
\* the results list: one entry per call, appended only for "anthropic"
_execute_tools(tool_calls, on_platform) ==
    IF tool_calls = <<>> THEN <<>>
    ELSE (IF on_platform = "anthropic"
          THEN <<ToolResult(Head(tool_calls))>> ELSE <<>>)
         \o _execute_tools(Tail(tool_calls), on_platform)

\* the messages _run_anthropic appends after a turn with tool calls
AnthropicAppended(resp) ==
    << [role |-> "assistant",
        content |-> (IF resp.text # "" THEN <<[type |-> "text", text |-> resp.text]>> ELSE <<>>)
                    \o [q \in DOMAIN resp.tool_calls |->
                          [type |-> "tool_use", id |-> resp.tool_calls[q].id,
                           name |-> resp.tool_calls[q].name]]],
       [role |-> "user", content |-> _execute_tools(resp.tool_calls, "anthropic")] >>

\* the messages _run_openai appends after a turn with tool calls
OpenAIAppended(resp) ==
    << [role |-> "assistant", content |-> resp.text,
        tool_calls |-> [q \in DOMAIN resp.tool_calls |->
                          [id |-> resp.tool_calls[q].id, type |-> "function",
                           name |-> resp.tool_calls[q].name]]] >>
    \o [q \in DOMAIN resp.tool_calls |->
          [role |-> "tool", tool_call_id |-> resp.tool_calls[q].id,
           content |-> result_str(resp.tool_calls[q])]]

turns_unbounded(t, limit) == TRUE

\* for turn in range(max_turns)
turns_left(t, limit) == t < limit

ToolIdle ==
    /\ tpc = "idle"
    /\ platform = "other"
    /\ max_turns = 0
    /\ turn = 0
    /\ model_response = NoResponse
    /\ messages = <<>>

\* run_tool_conversation has been called
ToolInit ==
    /\ tpc = "called"
    /\ platform \in Platforms
    /\ max_turns \in (0..MaxTurns) \cup {default_max_turns}
    /\ turn = 0
    /\ model_response = NoResponse
    /\ messages = <<>>

\* the dispatch on the client's type and the first message(s)
RunToolConversation ==
    /\ tpc = "called"
    /\ IF platform = "other"
       THEN tpc' = "raised"
       ELSE tpc' = IF turns_left(0, max_turns) THEN "loop" ELSE "returned"
    /\ UNCHANGED <<platform, max_turns, turn, model_response, messages>>
    /\ UNCHANGED exceptToolVars

\* one pass of the loop body, the model answering resp
ToolTurn(resp) ==
    /\ tpc = "loop"
    /\ model_response' = resp
    /\ turn' = turn + 1
    /\ IF resp.tool_calls = <<>>
       THEN tpc' = "returned" /\ messages' = <<>>
       ELSE LET appended == IF platform = "anthropic" THEN AnthropicAppended(resp)
                            ELSE OpenAIAppended(resp)
            IN /\ messages' = appended
               /\ tpc' = IF turns_left(turn + 1, max_turns) THEN "loop" ELSE "returned"
    /\ UNCHANGED <<platform, max_turns>>
    /\ UNCHANGED exceptToolVars

\* make_api_call_with_retry gives up and its error leaves the loop
ToolTurnFails ==
    /\ tpc = "loop"
    /\ tpc' = "raised"
    /\ turn' = turn + 1
    /\ UNCHANGED <<platform, max_turns, model_response, messages>>
    /\ UNCHANGED exceptToolVars

ToolNext ==
    \/ RunToolConversation
    \/ \E resp \in Responses : ToolTurn(resp)
    \/ ToolTurnFails

(***************************************************************************)
(* cmd_drill_down                                                          *)
(***************************************************************************)
\* the names change_analyzer defines at module level
change_analyzer_names ==
    {"BreakpointResult", "AnalysisUnit", "compute_magnitude", "find_breakpoints",
     "plan_analysis_units", "summarize_plan"}

\* from change_analyzer import <nm> succeeds
can_import(nm) == nm \in change_analyzer_names

NoSnapshot == [filename |-> <<>>, label |-> <<>>, sort_key |-> NoKey]

\* the last snapshot of the list that carries the label, None when there is none
find_snapshot(snaps, lbl) ==
    IF \E q \in DOMAIN snaps : snaps[q].label = lbl
    THEN snaps[CHOOSE q \in DOMAIN snaps :
                 /\ snaps[q].label = lbl
                 /\ \A r \in DOMAIN snaps : snaps[r].label = lbl => r <= q]
    ELSE NoSnapshot

\* the snapshot lists discover_snapshots can return
SnapshotLists ==
    UNION {{[q \in DOMAIN listing |-> SnapshotInfo(listing[q])] :
              listing \in {l \in Orderings(fs) :
                             \A q \in DOMAIN l, r \in DOMAIN l :
                                q < r => ~KeyLess(_parse_suffix(l[r].suffix),
                                                  _parse_suffix(l[q].suffix))}} :
           fs \in {d \in SUBSET Kept(DirectoryEntries) :
                     Cardinality(d) \in 2..MaxDrillSnapshots}}

DrillLabels == {f.suffix : f \in DirectoryEntries}

DrillIdle ==
    /\ kpc = "idle"
    /\ drill_down = <<<<>>, <<>>>>
    /\ drill_snapshots = <<>>
    /\ stored_summary = ""
    /\ snap_a = NoSnapshot
    /\ snap_b = NoSnapshot
    /\ major_analyses = <<>>

\* cmd_drill_down has been called: the snapshots the directory holds, the two
\* labels of the command line and the summary the progress file holds
DrillInit ==
    /\ kpc = "called"
    /\ drill_snapshots \in SnapshotLists
    /\ drill_down \in DrillLabels \X DrillLabels
    /\ stored_summary \in {"", "summary"}
    /\ snap_a = NoSnapshot
    /\ snap_b = NoSnapshot
    /\ major_analyses = <<>>

\* cmd_drill_down up to the call of analyze_major
CmdDrillDown ==
    /\ kpc = "called"
    /\ LET found_a == find_snapshot(drill_snapshots, drill_down[1])
           found_b == find_snapshot(drill_snapshots, drill_down[2])
           swap == KeyLess(found_b.sort_key, found_a.sort_key)
       IN IF found_a = NoSnapshot \/ found_b = NoSnapshot
          THEN /\ kpc' = "exit 1"
               /\ UNCHANGED <<snap_a, snap_b, stored_summary, major_analyses>>
          ELSE /\ snap_a' = IF swap THEN found_b ELSE found_a
               /\ snap_b' = IF swap THEN found_a ELSE found_b
               /\ IF stored_summary = "" /\ ~can_import("detect_status_docs")
                  THEN /\ kpc' = "ImportError"
                       /\ UNCHANGED <<stored_summary, major_analyses>>
                  ELSE /\ kpc' = "analyzing"
                       /\ stored_summary' = "summary"
                       /\ major_analyses' =
                             Append(major_analyses,
                                    [tier |-> "major", old_label |-> snap_a'.label,
                                     new_label |-> snap_b'.label])
    /\ UNCHANGED <<drill_down, drill_snapshots>>
    /\ UNCHANGED exceptDrillVars

\* analyze_major returns its narrative or the tool conversation raises
AnalyzeMajorEnds(ok) ==
    /\ kpc = "analyzing"
    /\ kpc' = IF ok THEN "printed" ELSE "raised"
    /\ UNCHANGED <<drill_down, drill_snapshots, stored_summary, snap_a, snap_b, major_analyses>>
    /\ UNCHANGED exceptDrillVars

DrillNext ==
    \/ CmdDrillDown
    \/ \E ok \in BOOLEAN : AnalyzeMajorEnds(ok)

(***************************************************************************)
(* SnapshotContext: the handlers of the snapshot tools.  Contents are      *)
(* "None" before an archive is loaded and "loaded" afterwards.             *)
(***************************************************************************)
\* the tools that answer from the precomputed diff
DiffTools ==
    {"get_change_summary", "list_files_added", "list_files_removed", "list_files_moved",
     "list_files_modified", "get_diff", "get_status_docs", "list_all_files"}

\* values of the snapshot argument: the two of the schema and any other
SnapshotArgs == {"old", "new", "newest"}

_load_snapshot_contents_eager(ctx, snapshot, ok) ==
    LET side == IF snapshot = "old" THEN "old" ELSE "new"
    IN [ctx EXCEPT ![side] = IF ok THEN "loaded" ELSE @,
                   !.extractions[side] = IF ok THEN @ + 1 ELSE @]

\* [old, new, extractions] after _load_snapshot_contents(snapshot);
\* get_snapshot_files succeeds (ok) or raises
_load_snapshot_contents(ctx, snapshot, ok) ==
    LET side == IF snapshot = "old" THEN "old" ELSE "new"
    IN IF ctx[side] # "None" THEN ctx
       ELSE [ctx EXCEPT ![side] = IF ok THEN "loaded" ELSE @,
                        !.extractions[side] = IF ok THEN @ + 1 ELSE @]

ContextIdle ==
    /\ _old_contents = "None"
    /\ _new_contents = "None"
    /\ extractions = [side \in {"old", "new"} |-> 0]
    /\ sides_asked = {}
    /\ context_calls = MaxContextCalls
    /\ last_tool = "none"

\* SnapshotContext.__init__
ContextInit ==
    /\ _old_contents = "None"
    /\ _new_contents = "None"
    /\ extractions = [side \in {"old", "new"} |-> 0]
    /\ sides_asked = {}
    /\ context_calls = 0
    /\ last_tool = "none"

\* a handler that reads self.diff only
DiffToolCall(tool) ==
    /\ context_calls < MaxContextCalls
    /\ context_calls' = context_calls + 1
    /\ last_tool' = tool
    /\ UNCHANGED <<_old_contents, _new_contents, extractions, sides_asked>>
    /\ UNCHANGED exceptContextVars

\* get_file_content(snapshot, file_path)
get_file_content(snapshot, ok) ==
    /\ context_calls < MaxContextCalls
    /\ context_calls' = context_calls + 1
    /\ last_tool' = "get_file_content"
    /\ sides_asked' = sides_asked \cup {IF snapshot = "old" THEN "old" ELSE "new"}
    /\ LET c == _load_snapshot_contents(
                   [old |-> _old_contents, new |-> _new_contents,
                    extractions |-> extractions], snapshot, ok)
       IN /\ _old_contents' = c.old
          /\ _new_contents' = c.new
          /\ extractions' = c.extractions
    /\ UNCHANGED exceptContextVars

ContextNext ==
    \/ \E tool \in DiffTools : DiffToolCall(tool)
    \/ \E snapshot \in SnapshotArgs, ok \in BOOLEAN : get_file_content(snapshot, ok)

CacheUnused ==
    /\ cache = EmptyMap
    /\ old_cache = EmptyMap
    /\ cacheFile = [kind |-> "missing", map |-> EmptyMap]
    /\ backupMade = FALSE
    /\ proc = "start"
    /\ last_op = NoOp
    /\ first_stored = EmptyMap

vars == <<cacheVars, callVars, driverVars, auxVars>>

(***************************************************************************)
(* the canonical request string of the cache key (utils/api_cache.py)     *)
(***************************************************************************)
\* a text is a sequence of pieces: "a" is a piece of ordinary text, the others
\* are the separator literals of the request string with their blank lines
QuerySep == "---QUERY---"
ModelSep == "---MODEL---"
MaxTokensSep == "---MAX_TOKENS---"
Pieces == {"a", QuerySep, ModelSep}

MaxText == 2
Texts == UNION {[1..n -> Pieces] : n \in 0..MaxText}
MaxTokensValues == {0, 1}

\* str(n) of a non-negative integer
RECURSIVE str(_)
str(n) == IF n < 10 THEN <<Digits[n + 1]>> ELSE str(n \div 10) \o <<Digits[(n % 10) + 1]>>

\* request_string of _generate_cache_key; the SHA-256 of it is the key
request_string(full_cache, query_prompt, model_name, max_tokens) ==
    full_cache \o <<QuerySep>> \o query_prompt \o <<ModelSep>> \o model_name
    \o <<MaxTokensSep>> \o str(max_tokens)

\* the requests: the concatenated cache_prompt_list, the query prompt, the
\* client's model name and max_tokens, of MaxText pieces of text in all
KeyRequests ==
    {r \in [full_cache : Texts, query_prompt : Texts, model_name : Texts,
            max_tokens : MaxTokensValues] :
        Len(r.full_cache) + Len(r.query_prompt) + Len(r.model_name) <= MaxText}

NoString == <<"None">>

KeyIdle ==
    /\ key_requests = <<>>
    /\ request_strings = <<>>

KeyInit ==
    /\ key_requests \in KeyRequests \X KeyRequests
    /\ request_strings = <<NoString, NoString>>

\* _generate_cache_key for the n-th request (QueryWithBaseClient's call of
\* get_cached_response or set_cached_response)
GenerateCacheKey(n) ==
    /\ request_strings[n] = NoString
    /\ request_strings' =
          [request_strings EXCEPT ![n] =
              request_string(key_requests[n].full_cache, key_requests[n].query_prompt,
                             key_requests[n].model_name, key_requests[n].max_tokens)]
    /\ UNCHANGED key_requests
    /\ UNCHANGED exceptKeyVars

KeyNext == \E n \in 1..2 : GenerateCacheKey(n)

\* a process that only uses the cache
CacheSpecInit == CacheInit /\ CallReset /\ DriverIdle /\ RequestReset /\ PlanIdle /\ DiffIdle /\ DiscoveryIdle /\ ToolIdle /\ DrillIdle /\ ContextIdle /\ KeyIdle

CacheSpec == CacheSpecInit /\ [][CacheNext]_vars

\* a process that calls the retry engine
Init == CacheInit /\ CallReset /\ DriverIdle /\ RequestReset /\ PlanIdle /\ DiffIdle /\ DiscoveryIdle /\ ToolIdle /\ DrillIdle /\ ContextIdle /\ KeyIdle

Spec == Init /\ [][RetryNext]_vars

\* runs of cmd_analyze on an empty output directory
DriverSpecInit == DriverInit /\ CallReset /\ DriverReset /\ RequestReset /\ PlanIdle /\ DiffIdle /\ DiscoveryIdle /\ ToolIdle /\ DrillIdle /\ ContextIdle /\ KeyIdle

DriverSpec == DriverSpecInit /\ [][DriverNext]_vars

\* any sequence of calls on a ProgressTracker
TrackerSpecInit == CacheUnused /\ CallReset /\ DriverIdle /\ RequestReset /\ PlanIdle /\ DiffIdle /\ DiscoveryIdle /\ ToolIdle /\ DrillIdle /\ ContextIdle /\ KeyIdle

TrackerSpec == TrackerSpecInit /\ [][TrackerNext]_vars

\* runs of cmd_analyze between which the archives may change
ResumeSpecInit == DriverInit /\ CallReset /\ DriverReset /\ RequestReset /\ PlanIdle /\ DiffIdle /\ DiscoveryIdle /\ ToolIdle /\ DrillIdle /\ ContextIdle /\ KeyIdle

ResumeSpec == ResumeSpecInit /\ [][ResumeNext]_vars

\* one request of _query_llm against a failing provider
RequestSpecInit == CacheUnused /\ CallReset /\ DriverIdle /\ RequestReset /\ PlanIdle /\ DiffIdle /\ DiscoveryIdle /\ ToolIdle /\ DrillIdle /\ ContextIdle /\ KeyIdle

RequestSpec == RequestSpecInit /\ [][RequestNext]_vars

\* plan_analysis_units on every magnitude list and pair of thresholds
PlanSpecInit == CacheUnused /\ CallReset /\ DriverIdle /\ RequestReset /\ PlanInit /\ DiffIdle /\ DiscoveryIdle /\ ToolIdle /\ DrillIdle /\ ContextIdle /\ KeyIdle

PlanSpec == PlanSpecInit /\ [][PlanNext]_vars

\* discover_snapshots on every small directory
DiscoverySpecInit ==
    CacheUnused /\ CallReset /\ DriverIdle /\ RequestReset /\ PlanIdle /\ DiffIdle
    /\ DiscoveryInit /\ ToolIdle /\ DrillIdle /\ ContextIdle /\ KeyIdle

DiscoverySpec == DiscoverySpecInit /\ [][DiscoveryNext]_vars

\* discover_snapshots on the directories that hold one separator date
SeparatorDateSpecInit ==
    CacheUnused /\ CallReset /\ DriverIdle /\ RequestReset /\ PlanIdle /\ DiffIdle
    /\ SeparatorDateInit /\ ToolIdle /\ DrillIdle /\ ContextIdle /\ KeyIdle

SeparatorDateSpec == SeparatorDateSpecInit /\ [][DiscoveryNext]_vars

\* run_tool_conversation with every client, turn limit and model behaviour;
\* a turn that can be taken is taken
ToolSpecInit ==
    CacheUnused /\ CallReset /\ DriverIdle /\ RequestReset /\ PlanIdle /\ DiffIdle
    /\ DiscoveryIdle /\ ToolInit /\ DrillIdle /\ ContextIdle /\ KeyIdle

\* cmd_drill_down on every small project, pair of labels and progress file
DrillSpecInit ==
    CacheUnused /\ CallReset /\ DriverIdle /\ RequestReset /\ PlanIdle /\ DiffIdle
    /\ DiscoveryIdle /\ ToolIdle /\ DrillInit /\ ContextIdle /\ KeyIdle

DrillSpec == DrillSpecInit /\ [][DrillNext]_vars

ToolSpec == ToolSpecInit /\ [][ToolNext]_vars /\ WF_vars(ToolNext)

\* the tool calls one SnapshotContext answers during a conversation
ContextSpecInit ==
    CacheUnused /\ CallReset /\ DriverIdle /\ RequestReset /\ PlanIdle /\ DiffIdle
    /\ DiscoveryIdle /\ ToolIdle /\ DrillIdle /\ ContextInit /\ KeyIdle

ContextSpec == ContextSpecInit /\ [][ContextNext]_vars

\* the canonical request strings of two requests
KeySpecInit ==
    CacheUnused /\ CallReset /\ DriverIdle /\ RequestReset /\ PlanIdle /\ DiffIdle
    /\ DiscoveryIdle /\ ToolIdle /\ DrillIdle /\ ContextIdle /\ KeyInit

KeySpec == KeySpecInit /\ [][KeyNext]_vars

\* diff_snapshots on every pair of small inventories
DiffSpecInit == CacheUnused /\ CallReset /\ DriverIdle /\ RequestReset /\ PlanIdle /\ DiffInit /\ DiscoveryIdle /\ ToolIdle /\ DrillIdle /\ ContextIdle /\ KeyIdle

DiffSpec == DiffSpecInit /\ [][DiffNext]_vars

\* phase 3 of cmd_analyze: find_breakpoints, then plan_analysis_units
BreakpointSpecInit == CacheUnused /\ CallReset /\ DriverIdle /\ RequestReset /\ MeasuredInit /\ DiffIdle /\ DiscoveryIdle /\ ToolIdle /\ DrillIdle /\ ContextIdle /\ KeyIdle

BreakpointSpec == BreakpointSpecInit /\ [][BreakpointNext]_vars

(***************************************************************************)
(* Properties                                                              *)
(***************************************************************************)
OriginalKey == _generate_cache_key(OriginalPrompt, PrimaryModel)

\* C1: when the primary model's attempt 0 was judged malformed and a later
\* cache-busted attempt of the primary model is accepted, the call returns
\* with the cache holding the accepted response under the original key and
\* no entry under any cache-busted key of the primary model.
C1_OriginalKeyHoldsAccepted ==
    (qpc = "returned" /\ a0_malformed
        /\ accepted_by.model = PrimaryModel /\ accepted_by.attempt > 0)
    => /\ Lookup(cache, OriginalKey) = accepted
       /\ \A rid \in 1..NumRequestIds :
             ~Has(cache, _generate_cache_key(BustedPrompt(rid), PrimaryModel))

\* C2: when every attempt of the primary model and of every fallback model
\* has failed and ModelError is raised, the cache holds no entry that a
\* failed attempt of this call wrote, under the original or a cache-busted
\* key, for the primary or a fallback model.
C2_NoFailedEntryAtModelError ==
    qpc = "raised" => \A e \in dirty : Lookup(cache, e[1]) # e[2]

\* C9: set_cached_response for a key present in the main cache leaves the
\* stored response as it was and writes no file; with no remove or clear in
\* between, get_cached_response returns the first response stored for the key.
C9_FirstStoredResponseWins ==
    /\ (last_op.op = "set" /\ last_op.before # NoEntry)
        => /\ Lookup(cache, last_op.key) = last_op.before
           /\ last_op.nsaves = 0
    /\ (last_op.op = "get" /\ Has(first_stored, last_op.key))
        => last_op.response = first_stored[last_op.key]
    /\ \A k \in DOMAIN cache : Has(first_stored, k) /\ cache[k] = first_stored[k]

C9_SetOnPresentKey ==
    /\ last_op.op = "set"
    /\ last_op.before # NoEntry
    /\ last_op.response # last_op.before

\* C10: when the main cache file exists and cannot be parsed, constructing
\* the cache raises, no get, set or remove runs on it afterwards, and the
\* main cache file keeps its content.
C10_CorruptMainCacheStops ==
    (cacheFile0.kind = "corrupt" /\ proc # "start")
    => /\ proc = "crashed"
       /\ cacheFile = cacheFile0
       /\ cache = EmptyMap
       /\ last_op = NoOp

C10_CorruptFileRaised ==
    /\ cacheFile0.kind = "corrupt"
    /\ proc = "crashed"
    /\ backupMade

\* C11: after any sequence of set, remove, clear and promoting get calls, a
\* fresh APICache loaded from the cache file holds the same map as the
\* in-memory main cache of the instance that made the calls, whatever the
\* outcome of the file writes.
C11_ReloadEqualsMemory ==
    proc = "ready"
    => LET r == _load_cache_file(cacheFile, TRUE)
       IN ~r.raised /\ r.map = cache

FailedBefore(p, m) ==
    {q \in 1..(p - 1) : call_log[q].model = m /\ call_log[q].outcome = "failed"}

\* C13: with fallback models configured, a fallback model is called only after
\* the primary model has made max_retries_per_model failed attempts.
C13_PrimaryGetsFullBudget ==
    \A p \in 1..Len(call_log) :
        (call_log[p].model # PrimaryModel /\ call_log[p].outcome # "noclient")
        => Cardinality(FailedBefore(p, PrimaryModel)) = effective_max_retries

C15_FallbackKeyHoldsAccepted ==
    (qpc = "returned" /\ accepted_by.model # PrimaryModel)
    => LET k == _generate_cache_key(OriginalPrompt, accepted_by.model)
       IN /\ Has(cache, k)
          /\ \/ cache[k] \in {accepted, returned}
             \/ fn = "json" /\ extract_json_from_response(cache[k]) = accepted

C17_AtMostFiveInvocations ==
    /\ (rpc # "done" /\ last_error \in TransientErrors \cup {"none"}) => invocations <= 5
    /\ (rpc = "raised" /\ last_error \in TransientErrors) => waits = <<2, 4, 8, 16>>

\* C18: after the progress check of cmd_analyze and before any analysis, the
\* progress record is the empty record of the current fingerprint when the
\* progress file of the run's start stored another fingerprint or none, and
\* is the stored record, with the file untouched, when the fingerprints are
\* equal.
C18_ProgressResetOnNewFingerprint ==
    dpc = "plan"
    => /\ analysis_calls = <<>>
       /\ provider_used = {}
       /\ IF _load(progFile0).snapshots_hash = curHash
          THEN /\ tracker = progFile0.data
               /\ progFile = progFile0
          ELSE /\ tracker.completed_units = <<>>
               /\ tracker.analysis_results = EmptyMap
               /\ tracker.project_summary = NoSummary
               /\ tracker.snapshots_hash = curHash
               /\ progFile = [kind |-> "ok", data |-> tracker]

C18_StoredProgressDiscarded ==
    /\ dpc = "plan"
    /\ progFile0.kind = "ok"
    /\ progFile0.data.snapshots_hash # curHash
    /\ progFile0.data.completed_units # <<>>
    /\ progFile0.data.project_summary # NoSummary
    /\ tracker.completed_units = <<>>

RECURSIVE AllTransitions(_)
\* the units' transition lists, concatenated in unit order
AllTransitions(us) ==
    IF us = <<>> THEN <<>> ELSE Head(us).transitions \o AllTransitions(Tail(us))

\* C19: for a magnitude list of length N >= 1 and any thresholds, the units'
\* transition lists, concatenated in unit order, are exactly 0, 1, ..., N-1.
C19_UnitsPartitionTransitions ==
    ppc = "planned"
    => AllTransitions(analysis_units) = [p \in 1..Len(magnitudes) |-> p - 1]

C19_MinorBatchPlanned ==
    /\ ppc = "planned"
    /\ Len(magnitudes) = MaxTransitions
    /\ Len(analysis_units) = 3
    /\ analysis_units[1].tier = "minor_batch"
    /\ analysis_units[2].tier = "major"
    /\ analysis_units[3].tier = "minor"

\* C20: each unit's transitions are consecutive indices and its snapshot_range
\* is (first transition, last transition + 1); a minor_batch unit has at
\* least two transitions, a minor, moderate or major unit exactly one.
C20_UnitShape ==
    ppc = "planned"
    => \A p \in 1..Len(analysis_units) :
          LET u == analysis_units[p]
              t == u.transitions
          IN /\ Len(t) >= 1
             /\ \A q \in 1..(Len(t) - 1) : t[q + 1] = t[q] + 1
             /\ u.snapshot_range = <<t[1], t[Len(t)] + 1>>
             /\ u.tier \in {"minor_batch", "minor", "moderate", "major"}
             /\ u.tier = "minor_batch" => Len(t) >= 2
             /\ u.tier # "minor_batch" => Len(t) = 1

C20_BatchOfThreeThenModerate ==
    /\ ppc = "planned"
    /\ Len(analysis_units) = 2
    /\ analysis_units[1].tier = "minor_batch"
    /\ analysis_units[1].transitions = <<0, 1, 2>>
    /\ analysis_units[1].snapshot_range = <<0, 3>>
    /\ analysis_units[2].tier = "moderate"

\* C21: for every list of non-negative magnitudes, of any length and with
\* equal values too, find_breakpoints returns minor_threshold strictly less
\* than major_threshold.
C21_MinorBelowMajor ==
    ppc # "measured" => breakpoints.minor_threshold < breakpoints.major_threshold

\* how often path p occurs in the classes of d
Occurrences(d, p) ==
    Cardinality({q \in DOMAIN d.added : d.added[q] = p})
    + Cardinality({q \in DOMAIN d.removed : d.removed[q] = p})
    + Cardinality({q \in DOMAIN d.modified : d.modified[q] = p})
    + Cardinality({q \in DOMAIN d.unchanged : d.unchanged[q] = p})
    + Cardinality({q \in DOMAIN d.moved : d.moved[q][1] = p})
    + Cardinality({q \in DOMAIN d.moved : d.moved[q][2] = p})

\* C22: every path of the old or the new file listing appears in exactly one
\* of the classes added, removed, modified, moved-from, moved-to, unchanged,
\* and no other path appears in any class.
C22_EveryPathInOneClass ==
    spc = "diffed"
    => \A p \in Paths :
          Occurrences(snapshot_diff, p)
          = IF p \in keys(old_files) \cup keys(new_files) THEN 1 ELSE 0

C22_AllClassesUsed ==
    /\ spc = "diffed"
    /\ Len(snapshot_diff.moved) = 1
    /\ Len(snapshot_diff.modified) = 1
    /\ Len(snapshot_diff.added) + Len(snapshot_diff.removed) = 0
    /\ Len(snapshot_diff.old_file_listing) = 2

\* C23: the two files of a moved pair have the same content hash, no added
\* file has the content hash of a file of the old snapshot, and no removed
\* file has the content hash of a file of the new snapshot.
C23_AddedRemovedShareNoHash ==
    spc = "diffed"
    => /\ \A q \in DOMAIN snapshot_diff.moved :
             old_files[snapshot_diff.moved[q][1]] = new_files[snapshot_diff.moved[q][2]]
       /\ \A q \in DOMAIN snapshot_diff.added :
             \A p \in keys(old_files) :
                old_files[p] # new_files[snapshot_diff.added[q]]
       /\ \A q \in DOMAIN snapshot_diff.removed :
             \A p \in keys(new_files) :
                new_files[p] # old_files[snapshot_diff.removed[q]]

\* the position of the snapshot labelled lbl in the returned list, 0 when absent
PositionOf(lbl) ==
    IF \E q \in DOMAIN snapshots : snapshots[q].label = lbl
    THEN CHOOSE q \in DOMAIN snapshots : snapshots[q].label = lbl
    ELSE 0

VersionLabels == {<<"v", "2">>, <<"1", ".", "0">>}
SequenceLabels == {<<"0", "0", "0", "1">>}
\* dated labels from the oldest to the newest
DatedLabels ==
    <<<<"8", "-", "1", "4", "-", "2", "1">>,
      <<"2", "2", "-", "0", "8", "-", "0", "1">>,
      <<"2", "5", "0", "5", "0", "7">>,
      <<"2", "0", "2", "5", "0", "9", "0", "9", "_", "1">>,
      <<"2", "0", "2", "5", "0", "9", "0", "9", "_", "2">>,
      <<"2", "0", "2", "5", "0", "9", "2", "3">>,
      <<"2", "0", "2", "5", "0", "9", "2", "3", "b">>>>

\* C24: in the returned list every version-labelled snapshot precedes every
\* sequence-numbered one, which precedes every dated one, and dated
\* snapshots are in the order of (year, month, day, letter, sub-number):
\* 20250909_1 < 20250909_2 < 20250923 < 20250923b.
C24_SnapshotsSortedByKey ==
    zpc = "returned"
    => /\ \A q \in DOMAIN snapshots, r \in DOMAIN snapshots :
             (\/ /\ snapshots[q].label \in VersionLabels
                 /\ snapshots[r].label \in SequenceLabels
              \/ /\ snapshots[q].label \in VersionLabels \cup SequenceLabels
                 /\ \E d \in DOMAIN DatedLabels : snapshots[r].label = DatedLabels[d])
             => q < r
       /\ \A d \in DOMAIN DatedLabels, e \in DOMAIN DatedLabels :
             (d < e /\ PositionOf(DatedLabels[d]) > 0 /\ PositionOf(DatedLabels[e]) > 0)
             => PositionOf(DatedLabels[d]) < PositionOf(DatedLabels[e])

C24_ExampleSorted ==
    /\ zpc = "returned"
    /\ Len(snapshots) = 4
    /\ snapshots[1].label = <<"2", "0", "2", "5", "0", "9", "0", "9", "_", "1">>
    /\ snapshots[2].label = <<"2", "0", "2", "5", "0", "9", "0", "9", "_", "2">>
    /\ snapshots[3].label = <<"2", "0", "2", "5", "0", "9", "2", "3">>
    /\ snapshots[4].label = <<"2", "0", "2", "5", "0", "9", "2", "3", "b">>

\* a file named <project>_<suffix>.zip, the project in any case
IsProjectZip(f) ==
    /\ f.is_file
    /\ f.ext \in {".zip", ".ZIP"}
    /\ f.name \in {"Doc", "doc"}
    /\ f.sep = "_"
    /\ f.suffix # <<>>

\* C25: discover_snapshots raises an error naming the offending files when a
\* file <project>_<suffix>.zip has a suffix no convention parses, however
\* many parseable snapshots exist; it raises when fewer than 2 snapshots are
\* found; it never returns a list that omits a matching zip file.
C25_UnparseableIsAnError ==
    zpc # "input"
    => LET offending == {f \in directory : IsProjectZip(f) /\ _parse_suffix(f.suffix) = NoKey}
           returned_files == {snapshots[q].filename : q \in DOMAIN snapshots}
       IN /\ offending # {} => (zpc = "raised" /\ offending \subseteq zip_error.files)
          /\ Cardinality({f \in directory : IsProjectZip(f)}) < 2 => zpc = "raised"
          /\ zpc = "returned"
             => /\ Len(snapshots) >= 2
                /\ \A f \in directory : IsProjectZip(f) => f \in returned_files

C25_RaisedDespiteParseable ==
    /\ zpc = "raised"
    /\ zip_error.kind = "unparseable"
    /\ Cardinality(zip_error.files) = 1
    /\ Cardinality({f \in directory : IsProjectZip(f) /\ _parse_suffix(f.suffix) # NoKey}) = 3

\* C26: run_tool_conversation always terminates: it makes at most max_turns
\* (default 25) model turns, goes on only after a turn that held tool calls,
\* and in the end has returned or raised.
C26_ConversationTerminates ==
    /\ [](turn <= max_turns)
    /\ [](tpc = "loop" => (turn = 0 \/ model_response.tool_calls # <<>>))
    /\ [](model_response.tool_calls = <<>> /\ turn > 0 => tpc # "loop")
    /\ <>(tpc \in {"returned", "raised"})

C26_StoppedAtDefaultLimit ==
    /\ tpc = "returned"
    /\ max_turns = default_max_turns
    /\ turn = default_max_turns
    /\ model_response.tool_calls # <<>>

\* the ids of the tool results among the messages the latest turn appended
ToolResultIds ==
    IF platform = "anthropic"
    THEN [q \in DOMAIN messages[2].content |-> messages[2].content[q].tool_use_id]
    ELSE [q \in 1..(Len(messages) - 1) |-> messages[q + 1].tool_call_id]

\* C27: after every turn that contains tool calls, the appended message(s)
\* hold exactly one tool result per tool call of the turn, each with the id
\* of its call, in call order, for both adapters, also for unknown tool names
\* and raising handlers.
C27_OneResultPerToolCall ==
    (tpc \in {"loop", "returned"} /\ model_response.tool_calls # <<>>)
    => /\ Len(messages) >= 2
       /\ messages[1].role = "assistant"
       /\ ToolResultIds =
             [q \in DOMAIN model_response.tool_calls |-> model_response.tool_calls[q].id]
       /\ IF platform = "anthropic"
          THEN /\ Len(messages) = 2
               /\ messages[2].role = "user"
               /\ \A q \in DOMAIN messages[2].content :
                     messages[2].content[q].type = "tool_result"
          ELSE \A q \in 2..Len(messages) : messages[q].role = "tool"

C27_UnknownAndRaisingAnswered ==
    /\ tpc = "loop"
    /\ platform = "anthropic"
    /\ model_response.tool_calls =
          <<ToolCall(2, "no_such_tool", FALSE), ToolCall(1, "get_file_diff", TRUE)>>
    /\ messages[2].content[1].content = "Unknown tool"
    /\ messages[2].content[2].content = "Error"

\* C29: for two labels that exist among the snapshots, a drill-down that has
\* ended has started exactly one major analysis, on the pair ordered by sort
\* key, whatever the order of the labels and whether or not a project
\* summary was stored.
C29_DrillDownRunsOneMajorAnalysis ==
    (/\ kpc \notin {"called", "analyzing", "idle"}
     /\ \A q \in 1..2 : \E r \in DOMAIN drill_snapshots :
           drill_snapshots[r].label = drill_down[q])
    => /\ Len(major_analyses) = 1
       /\ major_analyses[1].tier = "major"
       /\ {major_analyses[1].old_label, major_analyses[1].new_label}
             = {drill_down[1], drill_down[2]}
       /\ \E q \in DOMAIN drill_snapshots, r \in DOMAIN drill_snapshots :
             /\ q <= r
             /\ drill_snapshots[q].label = major_analyses[1].old_label
             /\ drill_snapshots[r].label = major_analyses[1].new_label

\* unit j has a result: it is the (j+1)-th of all_results and the tracker
\* holds it as the result of the completed unit j
HasResult(j) ==
    /\ j < Len(all_results)
    /\ j \in UnitsIn(tracker.completed_units)
    /\ Lookup(tracker.analysis_results, j) = all_results[j + 1]

\* C28: phase 5 handles the units in ascending index order: while unit i is
\* next or being analysed every unit below i has a result, and phase 6
\* starts only when every unit has a result.
C28_UnitsInAscendingOrder ==
    /\ dpc \in {"loop", "mark"}
       => /\ Len(all_results) = i
          /\ \A j \in 0..(i - 1) : HasResult(j)
    /\ dpc \in {"refresh", "save_refresh"}
       => /\ Len(all_results) = i + 1
          /\ \A j \in 0..i : HasResult(j)
    /\ (dpc = "phase6" \/ (dpc = "done" /\ ~plan_only))
       => /\ Len(all_results) = Len(units)
          /\ \A j \in 0..(Len(units) - 1) : HasResult(j)
    /\ \A q \in DOMAIN analysis_calls, r \in DOMAIN analysis_calls :
          q < r => analysis_calls[q] < analysis_calls[r]

C28_LoadedThenAnalysed ==
    /\ dpc = "phase6"
    /\ Len(units) = 3
    /\ analysis_calls = <<1, 2>>
    /\ runs = 2

\* C30: a transition lies in a minor or minor_batch unit exactly if its
\* magnitude is <= minor_threshold; any other transition lies in a major
\* unit if its magnitude is >= major_threshold and in a moderate unit
\* otherwise; is_inflection_point is true exactly for the major units.
C30_TierByThresholds ==
    ppc = "planned"
    => \A q \in DOMAIN analysis_units :
          LET u == analysis_units[q]
          IN /\ u.is_inflection_point = (u.tier = "major")
             /\ \A r \in DOMAIN u.transitions :
                   LET mag == magnitudes[u.transitions[r] + 1]
                   IN /\ u.tier \in {"minor", "minor_batch"}
                         <=> mag <= breakpoints.minor_threshold
                      /\ mag > breakpoints.minor_threshold
                         => u.tier = IF mag >= breakpoints.major_threshold
                                     THEN "major" ELSE "moderate"

C30_TiersAtTheThresholds ==
    /\ ppc = "planned"
    /\ Len(analysis_units) = 4
    /\ [q \in 1..4 |-> analysis_units[q].tier] = <<"minor", "moderate", "major", "minor">>
    /\ magnitudes[1] = breakpoints.minor_threshold
    /\ magnitudes[3] = breakpoints.major_threshold
    /\ magnitudes[4] < magnitudes[1]

C32_SameDiffOnSecondRun ==
    spc = "rediffed"
    => /\ snapshot_diff.moved = first_diff.moved
       /\ snapshot_diff.added = first_diff.added
       /\ snapshot_diff.removed = first_diff.removed

\* the numbers a, b, c of the separator date sx
DateParts(sx) ==
    LET s1 == CHOOSE q \in Separators(sx) : \A r \in Separators(sx) : q <= r
        s2 == CHOOSE q \in Separators(sx) : \A r \in Separators(sx) : q >= r
    IN <<ToInt(SubSeq(sx, 1, s1 - 1)), ToInt(SubSeq(sx, s1 + 1, s2 - 1)),
         ToInt(SubSeq(sx, s2 + 1, Len(sx)))>>

ToolResults ==
    IF platform = "anthropic" THEN messages[2].content
    ELSE [q \in 1..(Len(messages) - 1) |-> messages[q + 1]]

\* C34: when a handler raises, the conversation goes on and the model
\* receives, for that call, a tool result that carries the error message and
\* is marked with an error flag, with both adapters.
C34_RaisingHandlerFlagged ==
    (tpc \in {"loop", "returned"} /\ model_response.tool_calls # <<>>)
    => \A q \in DOMAIN model_response.tool_calls :
          (model_response.tool_calls[q].name \in tool_handlers
           /\ model_response.tool_calls[q].raises)
          => /\ q \in DOMAIN ToolResults
             /\ ToolResults[q].content = "Error"
             /\ "is_error" \in DOMAIN ToolResults[q]
             /\ ToolResults[q].is_error

\* C35: for one SnapshotContext each archive is successfully extracted at
\* most once, a side is not extracted before get_file_content was asked for
\* it, and only get_file_content extracts.
C35_ExtractedAtMostOnce ==
    /\ [](\A side \in {"old", "new"} :
             /\ extractions[side] <= 1
             /\ extractions[side] > 0 => side \in sides_asked)
    /\ [][extractions' # extractions => last_tool' = "get_file_content"]_vars

C35_BothSidesLoadedOnce ==
    /\ context_calls = MaxContextCalls
    /\ extractions = [side \in {"old", "new"} |-> 1]
    /\ _old_contents = "loaded"
    /\ last_tool = "list_all_files"

\* C36: a get_cached_response(k) that directly follows remove_cache_entry(k)
\* returns None, whatever the old cache holds for k
C36_RemovedStaysAbsent ==
    [][(/\ last_op.op = "remove"
        /\ last_op'.op = "get"
        /\ last_op'.key = last_op.key)
       => last_op'.response = NoEntry]_vars

\* C37: whenever a run skips unit index i as already completed, the stored
\* result was produced for a unit equal to unit i of the current plan
C37_SkippedResultIsForThisUnit ==
    [][SkipUnit => Lookup(produced_for, i) = units[i + 1]]_vars

\* the tracker's record d holds its completed units in strictly ascending
\* order, and they are the units that have a stored result
WellFormed(d) ==
    /\ \A m \in 1..Len(d.completed_units), n \in 1..Len(d.completed_units) :
          m < n => d.completed_units[m] < d.completed_units[n]
    /\ UnitsIn(d.completed_units) = DOMAIN d.analysis_results
    /\ \A unit_index \in 0..(MaxUnits - 1) :
          is_unit_completed(d, unit_index) => get_unit_result(d, unit_index) # NoEntry

\* C38: after any sequence of initialize, set_project_summary and
\* mark_unit_completed calls, and after reloading the file they wrote,
\* completed_units is strictly ascending and holds the keys of
\* analysis_results, so a completed unit has a result; set_project_summary
\* changes neither of the two
C38_CompletedUnitsMatchResults ==
    /\ [](WellFormed(tracker) /\ WellFormed(_load(progFile)))
    /\ [][(\E text \in {"g1", ""}, ok \in BOOLEAN : SetProjectSummaryCall(text, ok))
           => /\ tracker'.completed_units = tracker.completed_units
              /\ tracker'.analysis_results = tracker.analysis_results]_vars

C38_AllUnitsMarked ==
    /\ Len(tracker.completed_units) = MaxUnits
    /\ tracker.project_summary.kind = "text"
    /\ get_unit_result(tracker, MaxUnits - 1) = ""
    /\ tracker = _load(progFile)

\* C39: two requests that differ in the stable prompt, the variable prompt,
\* the model name or max-tokens never have the same canonical request string
C39_DistinctRequestsDistinctStrings ==
    (/\ key_requests # <<>>
     /\ request_strings[1] # NoString
     /\ request_strings[2] # NoString
     /\ key_requests[1] # key_requests[2])
    => request_strings[1] # request_strings[2]

\* C40: when list_projects reports the project with a count, discover_snapshots
\* on the same directory with that name returns exactly that many snapshots
C40_ListedProjectIsDiscovered ==
    (/\ zpc # "input"
     /\ <<lower(project_name)>> \in DOMAIN list_projects(directory))
    => /\ zpc = "returned"
       /\ Len(snapshots) = list_projects(directory)[<<lower(project_name)>>]

\* number of positions of s that hold x
Count(s, x) == Cardinality({n \in 1..Len(s) : s[n] = x})

\* the last inflection point before unit j (-1 when there is none)
RECURSIVE LastInflection(_)
LastInflection(j) ==
    IF j = 0 THEN -1
    ELSE IF units[j] = "major" THEN j - 1 ELSE LastInflection(j - 1)

\* C3: in phase 5 the project summary passed to the analysis of unit j was
\* produced by a refresh that ran after every inflection-point unit before j
\* completed, in an uninterrupted run and in a run resumed after a kill.
C3_AnalysisSeesRefreshedSummary ==
    (dpc = "mark" /\ LastInflection(i) >= 0)
    => project_summary.src = <<LastInflection(i)>>

\* C4: a kill inside a ProgressTracker save leaves the progress file holding
\* the complete record from before the mutation or the complete record after
\* it, so the completed units found by the next run are never fewer than
\* those on disk before a save that kept the fingerprint.
C4_InterruptedSaveKeepsARecord ==
    save_cut.active
    => /\ progFile \in {save_cut.before, save_cut.after}
       /\ (save_cut.before.data.snapshots_hash = save_cut.after.data.snapshots_hash
            => UnitsIn(save_cut.before.data.completed_units)
                  \subseteq UnitsIn(_load(progFile).completed_units))

\* C5: a run resumed on the same snapshot set after a kill with units 0..k-1
\* completed and unit k in flight calls analyze_unit for no unit below k and
\* loads their stored results, analyses unit k and every later unit exactly
\* once, and ends with one stored result for every unit.
C5_ResumeSkipsCompletedUnits ==
    resume_k >= 0
    => /\ \A n \in 1..Len(analysis_calls) : analysis_calls[n] >= resume_k
       /\ \A u \in 0..(resume_k - 1) :
             Len(all_results) > u
             => all_results[u + 1] = get_unit_result(progFile0.data, u)
       /\ dpc = "done"
           => /\ \A u \in resume_k..(Len(units) - 1) : Count(analysis_calls, u) = 1
              /\ UnitsIn(progFile.data.completed_units) = 0..(Len(units) - 1)
              /\ DOMAIN progFile.data.analysis_results = 0..(Len(units) - 1)

C5_ResumedRunDone ==
    /\ resume_k = 1
    /\ dpc = "done"
    /\ Len(units) = 3
    /\ Len(analysis_calls) = 2

\* C6: a --plan-only run creates no AI client, makes no LLM call and neither
\* creates nor modifies the progress file, the cache file or a run log,
\* whatever the output directory held before.
C6_PlanOnlyTouchesNothing ==
    (plan_only /\ dpc # "boot")
    => /\ ~ai_client
       /\ provider_used = {}
       /\ ~run_log
       /\ progFile = progFile0
       /\ cacheFile = cacheFile0

\* C7: a second run after a completed run, on the same snapshots with the
\* cache and progress file the first run left, never invokes the provider
\* and leaves the progress record as it was.
C7_SecondRunNeedsNoProvider ==
    rerun => (provider_used = {} /\ progFile = progFile0)

\* C8: no unit is marked completed in the progress file with an empty
\* narrative.
C8_NoCompletedUnitWithEmptyNarrative ==
    \A u \in UnitsIn(progFile.data.completed_units) : get_unit_result(progFile.data, u) # ""

====
